---- MODULE Spec2Model ----
(***************************************************************************)
(* Model of simple-code-agent: the agent loop of src/src/agent.ts          *)
(* (function agent and the main IIFE around it) and the retry wrappers     *)
(* withRetry / calculateDelay, openaiWithRetry and fetchWithRetry of the   *)
(* tools/utils module.                                                     *)
(*                                                                         *)
(* The agent loop is one async function; it is modelled as a sequential    *)
(* process whose position is pc.  The LLM endpoint is the environment: at  *)
(* every orchestrator call it answers with one of the response shapes the  *)
(* wire contract allows, or the retry wrapper gives up and the call fails. *)
(***************************************************************************)
EXTENDS Integers, Sequences, FiniteSets, TLC

\* ---------------------------------------------------------------- bounds
\* longest tool_calls array the modelled LLM returns in one response
MaxBatch == 3
\* the modelled LLM returns a message only while the transcript it would
\* produce in that turn stays within this many messages
MaxMsgs == 7

\* largest maxAttempts a call site passes to withRetry in the model
MaxAttemptsBound == 7

\* most elements a fetched page or JSON answer holds in the model
MaxRaw == 4

\* most characters of a file content in the model
MaxContent == 2

\* ------------------------------------------------------ program constants
\* const maxTurns = 50
maxTurns == 50
\* webresearch: $(".result").slice(0, 3)
ResultLimit == 3
\* image_search_analysis: if (imageUrls.length >= 3), .slice(0, 3)
ImageLimit == 3
\* CONFIG.TIMEOUTS.COMMAND_EXECUTION, in milliseconds
COMMAND_EXECUTION == 120000
\* CONFIG.RETRY defaults
MAX_ATTEMPTS == 3
BASE_DELAY == 1000
MAX_DELAY == 30000
BACKOFF_MULTIPLIER == 2

\* ------------------------------------------------------------ agent state
VARIABLES
  pc,             \* position inside agent() / the main IIFE
  messages,       \* const messages: Message[]
  isTaskComplete, \* let isTaskComplete
  turnCount,      \* let turnCount
  batch,          \* msg.tool_calls of the response being processed
  idx,            \* position of the for..of iterator in batch (1-based)
  cwd,            \* process.cwd(), the process-wide working directory
  originalCwd,    \* const originalCwd of the current loop iteration
  workingDir,     \* parameter workingDir of agent()
  dispatched,     \* ids of the calls handed to toolHandlers[name], in order
  llmCalls,       \* orchestrator requests made through openaiWithRetry
  mainCalls,      \* of these, the main calls of the while loop
  lastRequest,    \* the last of these requests: which call, with `tools`?
  leftBy,         \* how the while loop was left: "" (not yet), "break"
                  \* (the break of the else branch), "condition"
  log,            \* outcome lines printed after the loop
  exitCode,       \* process exit status set by the main IIFE's catch
  fatal           \* which statement threw the error that left agent()

agentVars == <<pc, messages, isTaskComplete, turnCount, batch, idx, cwd,
               originalCwd, workingDir, dispatched, llmCalls, mainCalls,
               lastRequest, leftBy, log, exitCode, fatal>>

\* ------------------------------------------------------ withRetry state
VARIABLES
  rpc,          \* position of one withRetry call: "off" (no call), "attempt"
                \* (operation in flight), "waiting" (setTimeout pending),
                \* "resolved", "rejected"
  attempt,      \* parameter attempt of attemptOperation
  maxAttempts,  \* options.maxAttempts
  baseDelay,    \* options.baseDelay
  multiplier,   \* options.multiplier
  maxDelay,     \* options.maxDelay
  shouldRetry,  \* options.shouldRetry, as the set of errors it accepts
  onRetry,      \* options.onRetry: whose hook it is ("default", "caller",
                \* "openai")
  callSite,     \* which function the call site called, and the options
                \* object it passed
  opCalls,      \* number of times operation() was invoked
  thrown,       \* the errors operation() failed with, one per failed attempt
  hookCalls,    \* the (error, attempt) pairs onRetry was called with
  delays,       \* the delays handed to setTimeout, in order
  settled,      \* the value resolve() or reject() was called with
  opErrors      \* parameter operation, as the set of errors it can throw

retryVars == <<rpc, attempt, maxAttempts, baseDelay, multiplier, maxDelay,
               shouldRetry, onRetry, callSite, opCalls, thrown, hookCalls,
               delays, settled,
               opErrors>>

\* ---------------------------------------------------- fetchWithRetry state
VARIABLES
  timers,       \* attempts whose timeout timer (timeoutId) is armed
  aborted,      \* attempts whose AbortController was aborted
  response      \* status of the response the wrapper resolved with, 0 if none

fetchVars == <<timers, aborted, response>>

\* ------------------------------------------------------ tool handler state
VARIABLES
  tpc,          \* position inside the tool handler that is running
  input,        \* what the handler is given: its arguments and the outcome
                \* of its external effect
  items,        \* the list the handler works through (results, image URLs)
  ti,           \* position of the handler's loop in items (1-based)
  entries,      \* the list the handler records (summaries, analyses)
  effects,      \* the external calls the handler has made, in order
  result        \* the string the handler returned, as words; <<>> if none

toolVars == <<tpc, input, items, ti, entries, effects, result>>

vars == <<agentVars, retryVars, fetchVars, toolVars>>

\* directories: where the process was started, and the repository argument
LaunchDir == "launch"
RepoDir == "repo"

\* the keys of toolHandlers
Registered == {"read_file", "write_file", "run_command", "done",
               "webresearch", "analyze_image", "image_search_analysis"}

\* tool names the modelled LLM emits: a registered tool, done, and a name
\* that is not a key of toolHandlers
ToolNames == {"read_file", "done", "no_such_tool"}

\* shapes of toolCall.function.arguments: a JSON object with the required
\* fields, a JSON object without them, and a string that is not JSON
ArgShapes == {"ok", "nofield", "badjson"}

\* the (name, arguments) pairs the modelled LLM puts in a tool call: each
\* takes a different path through the body of the for..of loop
CallKinds ==
  { k \in [name : ToolNames, args : ArgShapes] :
      \/ k.args = "ok"
      \/ k.name = "read_file"
      \/ k.name = "done" /\ k.args = "badjson" }

\* interface Message; a field the message lacks is "" / <<>> / 0, and
\* hasCalls tells an absent tool_calls from an empty array
Msg(role, content, hasCalls, calls, id) ==
  [role |-> role, content |-> content, hasCalls |-> hasCalls,
   tool_calls |-> calls, tool_call_id |-> id]

\* messages.push(m): the transcript grows by one message at its end
PushOverwrites(msgs, m) ==
  IF msgs = <<>> THEN <<m>> ELSE [msgs EXCEPT ![Len(msgs)] = m]
Push(msgs, m) == Append(msgs, m)

\* messages.push({ role: "tool", tool_call_id: toolCall.id, content })
ToolMsgWrongId(call, content) == Msg("tool", content, FALSE, <<>>, call.id + 1)
ToolMsg(call, content) == Msg("tool", content, FALSE, <<>>, call.id)

\* while (!isTaskComplete && turnCount < maxTurns)
LoopContinuesOffByOne(complete, turns) == ~complete /\ turns <= maxTurns
LoopContinues(complete, turns) == ~complete /\ turns < maxTurns

\* if (msg.tool_calls): JavaScript truthiness, so an empty array counts
HasToolCalls(msg) == msg.hasCalls

\* for (const toolCall of msg.tool_calls): the iterator has no call left
BatchExhaustedEarly(i, calls) == i > Len(calls) \/ i > 1
BatchExhausted(i, calls) == i > Len(calls)

\* the break after a done call: the iterator is abandoned
AfterDoneNoBreak(i, calls) == i + 1
AfterDone(i, calls) == Len(calls) + 1

\* if (!isTaskComplete) before the follow-up call
NeedsFollowUpAlways(complete) == TRUE
NeedsFollowUp(complete) == ~complete

\* process.chdir(workingDir) before the dispatch: the directory the process
\* is in while the handler runs
ChdirSkipped(dir, current) == current
Chdir(dir, current) == dir

\* try { ... } finally { process.chdir(originalCwd) }: the directory the
\* process is in once the dispatch is over, whatever its outcome
CwdAfterDispatchNoFinally(outcome, saved, current) ==
  IF outcome = "returned" THEN saved ELSE current
CwdAfterDispatch(outcome, saved, current) == saved

\* const handler = toolHandlers[name]; if (!handler) throw
IsRegistered(name) == name \in Registered

\* what the handler of a registered tool does with the parsed arguments:
\* read_file and write_file resolve the path before their try block, so an
\* argument object without `path` makes them throw (path.resolve rejects
\* undefined); otherwise the handler returns a string, also when its
\* external effect fails
HandlerOutcome(call) ==
  IF call.name \in {"read_file", "write_file"} /\ call.args = "nofield"
    THEN "threw"
    ELSE "returned"

\* res.choices[0]?.message of a response with tool calls: the model gives
\* every call of the transcript an id of its own
ToolCallsOf(kinds, base) ==
  [i \in 1..Len(kinds) |->
     [id |-> base + i, name |-> kinds[i].name, args |-> kinds[i].args]]

\* enhancementResponse.choices[0]?.message?.content ?? userInput, where
\* content "" stands for a response without content
EnhancedUserInputNoFallback(content, userInput) == content
EnhancedUserInput(content, userInput) ==
  IF content = "" THEN userInput ELSE content

\* the two console.log lines after the loop
Report(turns, complete) ==
  (IF turns >= maxTurns THEN {"max_turns"} ELSE {}) \cup
  (IF complete THEN {"completed"} ELSE {})

\* ----------------------------------------------------- withRetry helpers
\* an error object as the retry predicates read it
Err(status, code, message) ==
  [status |-> status, code |-> code, message |-> message]

\* status 0 and code "" stand for an absent property; the message is the
\* sequence of its words, and a number printed in it the sequence of its
\* decimal digits
NoError == Err(0, "", <<>>)

\* String.prototype.includes, on word sequences: pat occurs in msg as a
\* contiguous run
Includes(msg, pat) ==
  \E i \in 0..(Len(msg) - Len(pat)) :
    \A j \in 1..Len(pat) : msg[i + j] = pat[j]

\* `${n}` for a non-negative integer: its decimal digits
Digit == <<"0", "1", "2", "3", "4", "5", "6", "7", "8", "9">>
RECURSIVE Decimal(_)
Decimal(n) ==
  IF n < 10 THEN <<Digit[n + 1]>>
  ELSE Append(Decimal(n \div 10), Digit[(n % 10) + 1])

\* errors the wrapped operation fails with in the model
Errors ==
  { Err(429, "", <<"rate", "limited">>), Err(400, "", <<"bad", "request">>) }

\* what the promise returned by withRetry was settled with
Pending == [state |-> "pending", error |-> NoError]
Resolved == [state |-> "resolved", error |-> NoError]
Rejected(e) == [state |-> "rejected", error |-> e]

\* the (baseDelay, multiplier, maxDelay) triples call sites use in the
\* model: the CONFIG.RETRY defaults and two overrides
DelayConfigs ==
  { <<BASE_DELAY, BACKOFF_MULTIPLIER, MAX_DELAY>>,
    <<500, 3, 10000>>,
    <<2000, 1, 1500>> }

\* calculateDelay: baseDelay * Math.pow(multiplier, attempt - 1), capped
calculateDelayOffByOne(a, base, mult, cap) ==
  LET delay == base * mult ^ a
  IN  IF delay < cap THEN delay ELSE cap
calculateDelay(a, base, mult, cap) ==
  LET delay == base * mult ^ (a - 1)
  IN  IF delay < cap THEN delay ELSE cap

\* if (attempt === maxAttempts || !shouldRetry(error)): give up
GivesUpIgnoresPredicate(a, max, accepts, e) == a = max
GivesUpNoLastCheck(a, max, accepts, e) == a > max \/ e \notin accepts
GivesUp(a, max, accepts, e) == a = max \/ e \notin accepts

\* an options object: a function from the keys that are present to their
\* values. { ...options, key: value, ... }: the later keys win
NoOptions == [k \in {} |-> 0]
SpreadKeepsFirst(options, over) ==
  [k \in DOMAIN options \cup DOMAIN over |->
     IF k \in DOMAIN options THEN options[k] ELSE over[k]]
Spread(options, over) ==
  [k \in DOMAIN options \cup DOMAIN over |->
     IF k \in DOMAIN over THEN over[k] ELSE options[k]]

\* const { key = fallback } = options
Destructure(options, key, fallback) ==
  IF key \in DOMAIN options THEN options[key] ELSE fallback

\* no call of withRetry or of a wrapper is being followed
NoCall == [via |-> "none", options |-> NoOptions]

\* withRetry destructures the options object it is given
Destructured(options, errors) ==
  /\ maxAttempts = Destructure(options, "maxAttempts", MAX_ATTEMPTS)
  /\ baseDelay = Destructure(options, "baseDelay", BASE_DELAY)
  /\ multiplier = Destructure(options, "multiplier", BACKOFF_MULTIPLIER)
  /\ maxDelay = Destructure(options, "maxDelay", MAX_DELAY)
  /\ shouldRetry = Destructure(options, "shouldRetry", errors)
  /\ onRetry = Destructure(options, "onRetry", "default")

\* the options objects the call sites of the wrappers pass in the model:
\* with or without maxAttempts: 2, a delay policy, a predicate of their own
\* (one that accepts nothing) and a hook of their own
CallSiteOptions ==
  { Spread(Spread(a, b), Spread(c, d)) :
      a \in {NoOptions, [maxAttempts |-> 2]},
      b \in {NoOptions,
             [baseDelay |-> 500, multiplier |-> 3, maxDelay |-> 10000]},
      c \in {NoOptions, [shouldRetry |-> {}]},
      d \in {NoOptions, [onRetry |-> "caller"]} }

\* ------------------------------------------------------------------ Init
\* no withRetry call is being followed
RetryOff ==
  /\ rpc = "off"
  /\ attempt = 0
  /\ maxAttempts = MAX_ATTEMPTS
  /\ baseDelay = BASE_DELAY
  /\ multiplier = BACKOFF_MULTIPLIER
  /\ maxDelay = MAX_DELAY
  /\ shouldRetry = {}
  /\ onRetry = "default"
  /\ callSite = NoCall
  /\ opCalls = 0
  /\ thrown = <<>>
  /\ hookCalls = <<>>
  /\ delays = <<>>
  /\ settled = Pending
  /\ opErrors = {}
  /\ timers = {}
  /\ aborted = {}
  /\ response = 0

\* no tool handler is being followed
ToolOff ==
  /\ tpc = "off"
  /\ input = <<>>
  /\ items = <<>>
  /\ ti = 1
  /\ entries = <<>>
  /\ effects = <<>>
  /\ result = <<>>

\* JSON.parse(toolCall.function.arguments) throws a SyntaxError
ParseThrowsNever(args) == FALSE
ParseThrows(args) == args = "badjson"

\* continue: back to the while condition
ContinueFallsThrough == pc' = "followup"
Continue == pc' = "loop"

\* the body of a chat.completions.create request of agent(): only the main
\* call of the loop passes `tools` (with tool_choice "auto")
NoRequest == [kind |-> "none", tools |-> FALSE]
RequestWithTools(kind) == [kind |-> kind, tools |-> TRUE]
Request(kind) == [kind |-> kind, tools |-> kind = "main"]

Init ==
  /\ RetryOff
  /\ ToolOff
  /\ pc = "enhance"
  /\ messages = <<>>
  /\ isTaskComplete = FALSE
  /\ turnCount = 0
  /\ batch = <<>>
  /\ idx = 1
  /\ cwd = LaunchDir
  /\ originalCwd = LaunchDir
  /\ workingDir = RepoDir
  /\ dispatched = <<>>
  /\ llmCalls = 0
  /\ mainCalls = 0
  /\ lastRequest = NoRequest
  /\ leftBy = ""
  /\ log = {}
  /\ exitCode = -1
  /\ fatal = ""

\* an exception leaves agent(): the main IIFE's catch prints it and calls
\* process.exit(1)
CrashSwallowed(stmt) ==
  /\ pc' = "loop"
  /\ exitCode' = exitCode
  /\ fatal' = stmt
Crash(stmt) ==
  /\ pc' = "failed"
  /\ exitCode' = 1
  /\ fatal' = stmt

\* ------------------------------------------------------------- ENHANCING
\* the enhancement call returns: messages = [system, user]
Enhance ==
  /\ pc = "enhance"
  /\ llmCalls' = llmCalls + 1
  /\ lastRequest' = Request("enhance")
  /\ \E content \in {"enhanced", ""} :
       messages' = << Msg("system", "systemPrompt", FALSE, <<>>, 0),
                      Msg("user", EnhancedUserInput(content, "task"), FALSE,
                          <<>>, 0) >>
  /\ pc' = "loop"
  /\ UNCHANGED <<retryVars, fetchVars, toolVars, leftBy, isTaskComplete,
                 turnCount, batch, idx, cwd, originalCwd, workingDir,
                 dispatched, mainCalls, log, exitCode, fatal>>

\* the enhancement call still fails after its retries
EnhanceFail ==
  /\ pc = "enhance"
  /\ llmCalls' = llmCalls + 1
  /\ lastRequest' = Request("enhance")
  /\ Crash("enhance")
  /\ UNCHANGED <<retryVars, fetchVars, toolVars, leftBy, messages,
                 isTaskComplete, turnCount, batch, idx, cwd, originalCwd,
                 workingDir, dispatched, mainCalls, log>>

\* --------------------------------------------------------------- RUNNING
\* the start of one turn: turnCount++ and the main call is issued
TurnStart ==
  /\ pc = "loop"
  /\ LoopContinues(isTaskComplete, turnCount)
  /\ turnCount' = turnCount + 1
  /\ llmCalls' = llmCalls + 1
  /\ lastRequest' = Request("main")
  /\ mainCalls' = mainCalls + 1

\* res.choices[0]?.message is undefined: continue
MainEmpty ==
  /\ TurnStart
  /\ Continue
  /\ UNCHANGED <<retryVars, fetchVars, toolVars, leftBy, messages,
                 isTaskComplete, batch, idx, cwd, originalCwd, workingDir,
                 dispatched, log, exitCode, fatal>>

\* the main call still fails after its retries
MainFail ==
  /\ TurnStart
  /\ Crash("main")
  /\ UNCHANGED <<retryVars, fetchVars, toolVars, leftBy, messages,
                 isTaskComplete, batch, idx, cwd, originalCwd, workingDir,
                 dispatched, log>>

\* the message msg of the response is handled: with tool calls it is pushed
\* and the for..of loop starts, without it is pushed and the loop is left
MainMessage(msg) ==
  /\ TurnStart
  /\ messages' = Push(messages, msg)
  /\ IF HasToolCalls(msg)
       THEN /\ batch' = msg.tool_calls
            /\ idx' = 1
            /\ pc' = "batch"
            /\ UNCHANGED leftBy
       ELSE /\ pc' = "report"
            /\ leftBy' = "break"
            /\ UNCHANGED <<batch, idx>>
  /\ UNCHANGED <<retryVars, fetchVars, toolVars, isTaskComplete, cwd,
                 originalCwd, workingDir, dispatched, log, exitCode, fatal>>

\* a response whose message has no tool_calls field
MainText ==
  /\ Len(messages) + 1 <= MaxMsgs
  /\ MainMessage(Msg("assistant", "text", FALSE, <<>>, 0))

\* a response whose message has a tool_calls array (possibly empty)
MainTools ==
  \E n \in 0..MaxBatch :
    /\ Len(messages) + 1 + n + 1 <= MaxMsgs
    /\ \E kinds \in [1..n -> CallKinds] :
         MainMessage(Msg("assistant", "", TRUE,
                         ToolCallsOf(kinds, Len(messages) + 1), 0))

\* ------------------------------------------------ the for..of loop body
\* JSON.parse(toolCall.function.arguments) throws; nothing catches it
ParseError ==
  /\ pc = "batch"
  /\ ~BatchExhausted(idx, batch)
  /\ ParseThrows(batch[idx].args)
  /\ Crash("parse")
  /\ UNCHANGED <<retryVars, fetchVars, toolVars, lastRequest, leftBy,
                 messages, isTaskComplete, turnCount, batch, idx, cwd,
                 originalCwd, workingDir, dispatched, llmCalls, mainCalls,
                 log>>

\* if (name === "done"): flag, acknowledgement, break
DoneCall ==
  /\ pc = "batch"
  /\ ~BatchExhausted(idx, batch)
  /\ ~ParseThrows(batch[idx].args)
  /\ batch[idx].name = "done"
  /\ isTaskComplete' = TRUE
  /\ messages' = Push(messages, ToolMsg(batch[idx], "Task completed"))
  /\ idx' = AfterDone(idx, batch)
  /\ UNCHANGED <<retryVars, fetchVars, toolVars, lastRequest, leftBy, pc,
                 turnCount, batch, cwd, originalCwd, workingDir, dispatched,
                 llmCalls, mainCalls, log, exitCode, fatal>>

\* chdir(workingDir), then toolHandlers[name] is undefined: the throw runs
\* the finally block and leaves agent()
UnknownTool ==
  /\ pc = "batch"
  /\ ~BatchExhausted(idx, batch)
  /\ ~ParseThrows(batch[idx].args)
  /\ batch[idx].name # "done"
  /\ ~IsRegistered(batch[idx].name)
  /\ originalCwd' = cwd
  /\ cwd' = CwdAfterDispatch("threw", cwd, Chdir(workingDir, cwd))
  /\ Crash("lookup")
  /\ UNCHANGED <<retryVars, fetchVars, toolVars, lastRequest, leftBy,
                 messages, isTaskComplete, turnCount, batch, idx, workingDir,
                 dispatched, llmCalls, mainCalls, log>>

\* chdir(workingDir) and the handler is called: await handler(args)
DispatchStart ==
  /\ pc = "batch"
  /\ ~BatchExhausted(idx, batch)
  /\ ~ParseThrows(batch[idx].args)
  /\ batch[idx].name # "done"
  /\ IsRegistered(batch[idx].name)
  /\ originalCwd' = cwd
  /\ cwd' = Chdir(workingDir, cwd)
  /\ dispatched' = Append(dispatched, batch[idx].id)
  /\ pc' = "handler"
  /\ UNCHANGED <<retryVars, fetchVars, toolVars, lastRequest, leftBy,
                 messages, isTaskComplete, turnCount, batch, idx, workingDir,
                 llmCalls, mainCalls, log, exitCode, fatal>>

\* the handler's promise resolves: the result is pushed, finally restores
HandlerReturn ==
  /\ pc = "handler"
  /\ HandlerOutcome(batch[idx]) = "returned"
  /\ messages' = Push(messages, ToolMsg(batch[idx], "result"))
  /\ cwd' = CwdAfterDispatch("returned", originalCwd, cwd)
  /\ idx' = idx + 1
  /\ pc' = "batch"
  /\ UNCHANGED <<retryVars, fetchVars, toolVars, lastRequest, leftBy,
                 isTaskComplete, turnCount, batch, originalCwd, workingDir,
                 dispatched, llmCalls, mainCalls, log, exitCode, fatal>>

\* the handler's promise rejects: finally restores, the error leaves agent()
HandlerThrow ==
  /\ pc = "handler"
  /\ HandlerOutcome(batch[idx]) = "threw"
  /\ cwd' = CwdAfterDispatch("threw", originalCwd, cwd)
  /\ Crash("handler")
  /\ UNCHANGED <<retryVars, fetchVars, toolVars, lastRequest, leftBy,
                 messages, isTaskComplete, turnCount, batch, idx, originalCwd,
                 workingDir, dispatched, llmCalls, mainCalls, log>>

\* the for..of loop is over (exhausted, or left by break)
BatchEnd ==
  /\ pc = "batch"
  /\ BatchExhausted(idx, batch)
  /\ pc' = IF NeedsFollowUp(isTaskComplete) THEN "followup" ELSE "loop"
  /\ UNCHANGED <<retryVars, fetchVars, toolVars, lastRequest, leftBy,
                 messages, isTaskComplete, turnCount, batch, idx, cwd,
                 originalCwd, workingDir, dispatched, llmCalls, mainCalls,
                 log, exitCode, fatal>>

\* ------------------------------------------------------ follow-up call
\* the follow-up call returns text: it is pushed as an assistant message
FollowUpText ==
  /\ pc = "followup"
  /\ llmCalls' = llmCalls + 1
  /\ lastRequest' = Request("followup")
  /\ messages' = Push(messages, Msg("assistant", "text", FALSE, <<>>, 0))
  /\ pc' = "loop"
  /\ UNCHANGED <<retryVars, fetchVars, toolVars, leftBy, isTaskComplete,
                 turnCount, batch, idx, cwd, originalCwd, workingDir,
                 dispatched, mainCalls, log, exitCode, fatal>>

\* the follow-up call returns no content: nothing is pushed
FollowUpNone ==
  /\ pc = "followup"
  /\ llmCalls' = llmCalls + 1
  /\ lastRequest' = Request("followup")
  /\ pc' = "loop"
  /\ UNCHANGED <<retryVars, fetchVars, toolVars, leftBy, messages,
                 isTaskComplete, turnCount, batch, idx, cwd, originalCwd,
                 workingDir, dispatched, mainCalls, log, exitCode, fatal>>

\* the follow-up call still fails after its retries
FollowUpFail ==
  /\ pc = "followup"
  /\ llmCalls' = llmCalls + 1
  /\ lastRequest' = Request("followup")
  /\ Crash("followup")
  /\ UNCHANGED <<retryVars, fetchVars, toolVars, leftBy, messages,
                 isTaskComplete, turnCount, batch, idx, cwd, originalCwd,
                 workingDir, dispatched, mainCalls, log>>

\* ------------------------------------------------------- after the loop
\* the while condition is false
LoopExit ==
  /\ pc = "loop"
  /\ ~LoopContinues(isTaskComplete, turnCount)
  /\ pc' = "report"
  /\ leftBy' = "condition"
  /\ UNCHANGED <<retryVars, fetchVars, toolVars, lastRequest, messages,
                 isTaskComplete, turnCount, batch, idx, cwd, originalCwd,
                 workingDir, dispatched, llmCalls, mainCalls, log, exitCode,
                 fatal>>

\* the two if statements after the loop; agent() returns, the process ends
ReportOutcome ==
  /\ pc = "report"
  /\ log' = Report(turnCount, isTaskComplete)
  /\ pc' = "returned"
  /\ exitCode' = 0
  /\ UNCHANGED fatal
  /\ UNCHANGED <<retryVars, fetchVars, toolVars, lastRequest, leftBy,
                 messages, isTaskComplete, turnCount, batch, idx, cwd,
                 originalCwd, workingDir, dispatched, llmCalls, mainCalls>>

Next ==
  \/ Enhance
  \/ EnhanceFail
  \/ MainEmpty
  \/ MainFail
  \/ MainText
  \/ MainTools
  \/ ParseError
  \/ DoneCall
  \/ UnknownTool
  \/ DispatchStart
  \/ HandlerReturn
  \/ HandlerThrow
  \/ BatchEnd
  \/ FollowUpText
  \/ FollowUpNone
  \/ FollowUpFail
  \/ LoopExit
  \/ ReportOutcome

Spec == Init /\ [][Next]_vars

\* every awaited call (a request through the retry wrapper, a tool handler)
\* eventually returns or fails, and the loop's own statements run on
FairSpec == Spec /\ WF_vars(Next)

\* ------------------------------------------------------------- withRetry
\* the agent loop is not running
AgentOff ==
  /\ pc = "off"
  /\ messages = <<>>
  /\ isTaskComplete = FALSE
  /\ turnCount = 0
  /\ batch = <<>>
  /\ idx = 1
  /\ cwd = LaunchDir
  /\ originalCwd = LaunchDir
  /\ workingDir = LaunchDir
  /\ dispatched = <<>>
  /\ llmCalls = 0
  /\ mainCalls = 0
  /\ lastRequest = NoRequest
  /\ leftBy = ""
  /\ log = {}
  /\ exitCode = -1
  /\ fatal = ""

\* attemptOperation(1) has invoked the operation; nothing has happened yet
FirstAttempt ==
  /\ rpc = "attempt"
  /\ attempt = 1
  /\ opCalls = 1
  /\ thrown = <<>>
  /\ hookCalls = <<>>
  /\ delays = <<>>
  /\ settled = Pending

\* a call of withRetry(operation, options): the options are destructured
\* and attemptOperation(1) invokes the operation
RetryInit ==
  /\ AgentOff
  /\ ToolOff
  /\ FirstAttempt
  /\ maxAttempts \in -1..MaxAttemptsBound
  /\ \E c \in DelayConfigs :
       /\ baseDelay = c[1]
       /\ multiplier = c[2]
       /\ maxDelay = c[3]
  /\ shouldRetry \in SUBSET Errors
  /\ onRetry = "default"
  /\ callSite = [via |-> "withRetry",
                 options |-> [maxAttempts |-> maxAttempts,
                          baseDelay |-> baseDelay,
                          multiplier |-> multiplier,
                          maxDelay |-> maxDelay,
                          shouldRetry |-> shouldRetry]]
  /\ opErrors = Errors
  /\ timers = {}
  /\ aborted = {}
  /\ response = 0

\* resolve(result)
Resolve ==
  /\ settled' = Resolved
  /\ rpc' = "resolved"
  /\ UNCHANGED <<attempt, maxAttempts, baseDelay, multiplier, maxDelay,
                 shouldRetry, onRetry, callSite, opCalls, thrown, hookCalls,
                 delays, opErrors>>

\* catch (error): on the last attempt, or if shouldRetry(error) is false,
\* reject(error); otherwise the delay is computed, onRetry(error, attempt)
\* is called and the timer is armed
CatchKeepsRetrying(e) ==
  /\ thrown' = Append(thrown, e)
  /\ settled' = IF GivesUp(attempt, maxAttempts, shouldRetry, e)
                  THEN Rejected(e) ELSE settled
  /\ hookCalls' = Append(hookCalls, <<e, attempt>>)
  /\ delays' = Append(delays, calculateDelay(attempt, baseDelay, multiplier,
                                             maxDelay))
  /\ rpc' = "waiting"
  /\ UNCHANGED <<attempt, maxAttempts, baseDelay, multiplier, maxDelay,
                 shouldRetry, onRetry, callSite, opCalls, opErrors>>
CatchNoWait(e) ==
  /\ thrown' = Append(thrown, e)
  /\ IF GivesUp(attempt, maxAttempts, shouldRetry, e)
       THEN /\ settled' = Rejected(e)
            /\ rpc' = "rejected"
            /\ UNCHANGED <<hookCalls, delays, attempt, opCalls>>
       ELSE /\ hookCalls' = Append(hookCalls, <<e, attempt>>)
            /\ attempt' = attempt + 1
            /\ opCalls' = opCalls + 1
            /\ rpc' = "attempt"
            /\ UNCHANGED <<settled, delays>>
  /\ UNCHANGED <<maxAttempts, baseDelay, multiplier, maxDelay, shouldRetry,
                 onRetry, callSite, opErrors>>
Catch(e) ==
  /\ thrown' = Append(thrown, e)
  /\ IF GivesUp(attempt, maxAttempts, shouldRetry, e)
       THEN /\ settled' = Rejected(e)
            /\ rpc' = "rejected"
            /\ UNCHANGED <<hookCalls, delays>>
       ELSE /\ hookCalls' = Append(hookCalls, <<e, attempt>>)
            /\ delays' =
                 Append(delays,
                        calculateDelay(attempt, baseDelay, multiplier,
                                       maxDelay))
            /\ rpc' = "waiting"
            /\ UNCHANGED settled
  /\ UNCHANGED <<attempt, maxAttempts, baseDelay, multiplier, maxDelay,
                 shouldRetry, onRetry, callSite, opCalls, opErrors>>

\* the timer callback: attemptOperation(attempt + 1) invokes the operation
NextAttempt ==
  /\ rpc = "waiting"
  /\ attempt <= MaxAttemptsBound
  /\ attempt' = attempt + 1
  /\ opCalls' = opCalls + 1
  /\ rpc' = "attempt"
  /\ UNCHANGED <<maxAttempts, baseDelay, multiplier, maxDelay, shouldRetry,
                 onRetry, callSite, thrown, hookCalls, delays, settled,
                 opErrors>>

\* await operation() returns: resolve(result)
OpSucceeds ==
  /\ rpc = "attempt"
  /\ Resolve
  /\ UNCHANGED <<agentVars, toolVars, fetchVars>>

\* await operation() throws e on the last attempt, or e is not retryable:
\* reject(error); return
OpFailsFinal ==
  /\ rpc = "attempt"
  /\ \E e \in opErrors :
       /\ GivesUp(attempt, maxAttempts, shouldRetry, e)
       /\ Catch(e)
  /\ UNCHANGED <<agentVars, toolVars, fetchVars>>

\* await operation() throws e and a retry is due: the delay is computed,
\* onRetry(error, attempt) is called and the timer is armed
OpFailsRetry ==
  /\ rpc = "attempt"
  /\ \E e \in opErrors :
       /\ ~GivesUp(attempt, maxAttempts, shouldRetry, e)
       /\ Catch(e)
  /\ UNCHANGED <<agentVars, toolVars, fetchVars>>

\* the timer fires: attemptOperation(attempt + 1) invokes the operation
TimerFires ==
  /\ NextAttempt
  /\ UNCHANGED <<agentVars, toolVars, fetchVars>>

RetryNext ==
  \/ OpSucceeds
  \/ OpFailsFinal
  \/ OpFailsRetry
  \/ TimerFires

RetrySpec == RetryInit /\ [][RetryNext]_vars

\* ------------------------------------------------ withRetry of agent.js
\* the for-loop withRetry, as a function of the outcomes of the successive
\* calls of operation (an error it rejected with, or NoError when it
\* returned) and of the options object. run is what the loop has done so
\* far: the invocations, hook calls and delays, lastError (NoError while
\* undefined) and what the async function settled with. When the outcomes
\* run out with the loop still going, the next invocation is in flight
RECURSIVE LoopFrom(_, _, _, _)
LoopFrom(a, outcomes, options, run) ==
  LET max == Destructure(options, "maxAttempts", MAX_ATTEMPTS)
      base == Destructure(options, "baseDelay", BASE_DELAY)
      mult == Destructure(options, "multiplier", BACKOFF_MULTIPLIER)
      cap == Destructure(options, "maxDelay", MAX_DELAY)
      accepts == Destructure(options, "shouldRetry", Errors)
      invoked == [run EXCEPT !.opCalls = @ + 1]
  IN  IF ~(a <= max)
        THEN [run EXCEPT !.settled = Rejected(run.lastError)]
      ELSE IF outcomes = <<>>
        THEN invoked
      ELSE IF Head(outcomes) = NoError
        THEN [invoked EXCEPT !.settled = Resolved]
      ELSE IF GivesUp(a, max, accepts, Head(outcomes))
        THEN [invoked EXCEPT !.lastError = Head(outcomes),
                             !.settled = Rejected(Head(outcomes))]
      ELSE LoopFrom(a + 1, Tail(outcomes), options,
             [invoked EXCEPT
                !.lastError = Head(outcomes),
                !.hookCalls = Append(@, <<Head(outcomes), a>>),
                !.delays = Append(@, calculateDelay(a, base, mult, cap))])

withRetryLoop(outcomes, options) ==
  LoopFrom(1, outcomes, options,
           [opCalls |-> 0, hookCalls |-> <<>>, delays |-> <<>>,
            lastError |-> NoError, settled |-> Pending])

\* ----------------------------------- withRetry with a throwing callback
\* the exception of a callback leaves the catch block: the promise of
\* attemptOperation rejects, `void` drops it, and neither resolve nor reject
\* nor setTimeout is reached
Abandon ==
  /\ rpc' = "abandoned"
  /\ UNCHANGED <<attempt, maxAttempts, baseDelay, multiplier, maxDelay,
                 shouldRetry, onRetry, callSite, opCalls, delays, settled,
                 opErrors>>

\* await operation() throws e on an attempt that is not the last one and
\* shouldRetry(e) itself throws
OpFailsPredicateThrows ==
  /\ rpc = "attempt"
  /\ attempt # maxAttempts
  /\ \E e \in opErrors : thrown' = Append(thrown, e)
  /\ UNCHANGED hookCalls
  /\ Abandon
  /\ UNCHANGED <<agentVars, toolVars, fetchVars>>

\* await operation() throws e, a retry is due, and onRetry(e, attempt)
\* throws
OpFailsHookThrows ==
  /\ rpc = "attempt"
  /\ \E e \in opErrors :
       /\ ~GivesUp(attempt, maxAttempts, shouldRetry, e)
       /\ thrown' = Append(thrown, e)
       /\ hookCalls' = Append(hookCalls, <<e, attempt>>)
  /\ Abandon
  /\ UNCHANGED <<agentVars, toolVars, fetchVars>>

HookNext ==
  \/ OpSucceeds
  \/ OpFailsFinal
  \/ OpFailsRetry
  \/ TimerFires
  \/ OpFailsPredicateThrows
  \/ OpFailsHookThrows

HookSpec == RetryInit /\ [][HookNext]_vars

\* ------------------------------------------------------- openaiWithRetry
\* shouldRetry of openaiWithRetry
OpenaiShouldRetryNoRateLimit(e) ==
  \/ e.status # 0 /\ e.status >= 500
  \/ e.code = "ECONNRESET"
  \/ e.code = "ENOTFOUND"
  \/ Includes(e.message, <<"timeout">>)
OpenaiShouldRetry(e) ==
  \/ e.status = 429
  \/ e.status # 0 /\ e.status >= 500
  \/ e.code = "ECONNRESET"
  \/ e.code = "ENOTFOUND"
  \/ Includes(e.message, <<"timeout">>)

\* errors an LLM call fails with in the model: API errors with a status,
\* connection errors with a code, and errors with neither
OpenaiErrors ==
  { Err(429, "", <<"Rate", "limit", "reached">>),
    Err(500, "", <<"Internal", "server", "error">>),
    Err(503, "", <<"Service", "unavailable">>),
    Err(400, "", <<"Invalid", "request">>),
    Err(401, "", <<"Incorrect", "API", "key">>),
    Err(404, "", <<"Resource", "not", "found">>),
    Err(0, "ECONNRESET", <<"socket", "hang", "up">>),
    Err(0, "ENOTFOUND", <<"getaddrinfo", "ENOTFOUND", "host">>),
    Err(0, "ECONNREFUSED", <<"connect", "ECONNREFUSED">>),
    Err(0, "", <<"Request", "timeout">>),
    Err(0, "", <<"Connection", "error.">>) }

\* a call of openaiWithRetry(operation, options): withRetry is called with
\* the caller's options and the wrapper's predicate
OpenaiInit ==
  /\ AgentOff
  /\ ToolOff
  /\ FirstAttempt
  /\ \E options \in CallSiteOptions :
       /\ callSite = [via |-> "openaiWithRetry", options |-> options]
       /\ Destructured(
            Spread(options,
                   [shouldRetry |->
                      { e \in OpenaiErrors : OpenaiShouldRetry(e) },
                    onRetry |-> "openai"]),
            OpenaiErrors)
  /\ opErrors = OpenaiErrors
  /\ timers = {}
  /\ aborted = {}
  /\ response = 0

OpenaiSpec == OpenaiInit /\ [][RetryNext]_vars

\* -------------------------------------------------------- fetchWithRetry
\* status codes of the responses the fetched server sends in the model
Statuses == {200, 404, 500, 503, 999}

\* response.ok
Ok(st) == st >= 200 /\ st <= 299

\* response.statusText, as words
StatusText(st) ==
  IF st = 500 THEN <<"Internal", "Server", "Error">>
  ELSE IF st = 503 THEN <<"Service", "Unavailable">>
  ELSE IF st = 404 THEN <<"Not", "Found">>
  ELSE IF st = 200 THEN <<"OK">>
  ELSE <<"Request", "denied">>

\* if (!response.ok && response.status >= 500) throw
ThrowsOnStatusAnyError(st) == ~Ok(st)
ThrowsOnStatus(st) == ~Ok(st) /\ st >= 500

\* new Error(`HTTP ${response.status}: ${response.statusText}`)
HttpError(st) ==
  Err(0, "", <<"HTTP">> \o Decimal(st) \o <<":">> \o StatusText(st))

\* new Error(`Request timeout after ${timeout}ms`)
TimeoutError == Err(0, "", <<"Request", "timeout", "after", "ms">>)

\* what fetch rejects with when its signal is aborted (name "AbortError")
AbortError == Err(0, "ABORT_ERR", <<"The", "operation", "was", "aborted.">>)

\* what fetch rejects with when the connection fails: a FetchError whose
\* message ends with the message of the system error and whose code is the
\* code of the system error
NetworkErrors ==
  { Err(0, "ECONNRESET", <<"request", "failed,", "reason:", "read",
                           "ECONNRESET">>),
    Err(0, "ECONNRESET", <<"request", "failed,", "reason:", "socket",
                           "hang", "up">>),
    Err(0, "ENOTFOUND", <<"request", "failed,", "reason:", "getaddrinfo",
                          "ENOTFOUND", "host">>),
    Err(0, "ECONNREFUSED", <<"request", "failed,", "reason:", "connect",
                             "ECONNREFUSED">>),
    Err(0, "EHOSTUNREACH", <<"request", "failed,", "reason:", "connect",
                             "EHOSTUNREACH">>) }

\* the catch block of the operation: an abort error becomes a timeout error
Transform(e) == IF e = AbortError THEN TimeoutError ELSE e

\* everything the operation of fetchWithRetry can throw
FetchErrors ==
  NetworkErrors \cup {TimeoutError}
    \cup { HttpError(st) : st \in { t \in Statuses : ThrowsOnStatus(t) } }

\* shouldRetry of fetchWithRetry: substring tests on the message
FetchShouldRetry(e) ==
  \/ Includes(e.message, <<"timeout">>)
  \/ Includes(e.message, <<"ECONNRESET">>)
  \/ Includes(e.message, <<"ENOTFOUND">>)
  \/ Includes(e.message, <<"ECONNREFUSED">>)
  \/ Includes(e.message, <<"HTTP", "5">>)

\* clearTimeout(timeoutId) of attempt k
ClearTimeoutNoop(ts, k) == ts
ClearTimeout(ts, k) == ts \ {k}

\* a call of fetchWithRetry(url, options): withRetry is called with the
\* caller's retryOptions and the wrapper's predicate; the first attempt has
\* created its controller, armed its timeout timer and issued the request
FetchInit ==
  /\ AgentOff
  /\ ToolOff
  /\ FirstAttempt
  /\ \E retryOptions \in CallSiteOptions :
       /\ callSite = [via |-> "fetchWithRetry", options |-> retryOptions]
       /\ Destructured(
            Spread(retryOptions,
                   [shouldRetry |->
                      { e \in FetchErrors : FetchShouldRetry(e) }]),
            FetchErrors)
  /\ opErrors = FetchErrors
  /\ timers = {1}
  /\ aborted = {}
  /\ response = 0

\* the request of the attempt in flight is answered with a status that is
\* not thrown: clearTimeout, return response, resolve
FetchReturns ==
  /\ rpc = "attempt"
  /\ attempt \notin aborted
  /\ \E st \in Statuses :
       /\ ~ThrowsOnStatus(st)
       /\ response' = st
  /\ timers' = ClearTimeout(timers, attempt)
  /\ Resolve
  /\ UNCHANGED <<agentVars, toolVars, aborted>>

\* the request is answered with a status that is thrown: clearTimeout, throw
\* the HTTP error, clearTimeout again in the catch block, rethrow
FetchHttpError ==
  /\ rpc = "attempt"
  /\ attempt \notin aborted
  /\ \E st \in Statuses :
       /\ ThrowsOnStatus(st)
       /\ Catch(Transform(HttpError(st)))
  /\ timers' = ClearTimeout(ClearTimeout(timers, attempt), attempt)
  /\ UNCHANGED <<agentVars, toolVars, aborted, response>>

\* the request fails on the network: clearTimeout, rethrow
FetchNetworkError ==
  /\ rpc = "attempt"
  /\ attempt \notin aborted
  /\ \E e \in NetworkErrors : Catch(Transform(e))
  /\ timers' = ClearTimeout(timers, attempt)
  /\ UNCHANGED <<agentVars, toolVars, aborted, response>>

\* an armed timeout timer fires: the callback aborts the controller of its
\* own attempt
FetchTimeout ==
  /\ \E k \in timers :
       /\ timers' = timers \ {k}
       /\ aborted' = aborted \cup {k}
  /\ UNCHANGED <<agentVars, toolVars, retryVars, response>>

\* the request of the attempt in flight is cancelled through its aborted
\* signal: fetch rejects with an abort error, the catch block clears the
\* timer and throws the timeout error instead
FetchAborted ==
  /\ rpc = "attempt"
  /\ attempt \in aborted
  /\ Catch(Transform(AbortError))
  /\ timers' = ClearTimeout(timers, attempt)
  /\ UNCHANGED <<agentVars, toolVars, aborted, response>>

\* the retry timer fires: attemptOperation(attempt + 1) calls the operation,
\* which creates a new controller, arms a new timeout timer and issues the
\* request
FetchRetry ==
  /\ NextAttempt
  /\ timers' = timers \cup {attempt + 1}
  /\ UNCHANGED <<agentVars, toolVars, aborted, response>>

FetchNext ==
  \/ FetchReturns
  \/ FetchHttpError
  \/ FetchNetworkError
  \/ FetchTimeout
  \/ FetchAborted
  \/ FetchRetry

FetchSpec == FetchInit /\ [][FetchNext]_vars

\* ---------------------------------------------- the wrappers' call sites
\* a call site calls one of the two wrappers with its options object; the
\* wrapper hands its operation and the merged options to withRetry
WrapperNext ==
  \/ (callSite.via = "openaiWithRetry" /\ RetryNext)
  \/ (callSite.via = "fetchWithRetry" /\ FetchNext)
WrapperSpec == (OpenaiInit \/ FetchInit) /\ [][WrapperNext]_vars

\* ----------------------------------------------------------- webresearch
\* a tool handler is entered: nothing recorded, nothing returned yet
ToolStart(position, given) ==
  /\ AgentOff
  /\ RetryOff
  /\ tpc = position
  /\ input = given
  /\ items = <<>>
  /\ ti = 1
  /\ entries = <<>>
  /\ effects = <<>>
  /\ result = <<>>

\* one external call of a handler: what it was, for which item, how it ended
Effect(kind, arg, outcome) == [kind |-> kind, arg |-> arg, outcome |-> outcome]

\* return <string>: the handler is over
Return(words) ==
  /\ result' = words
  /\ tpc' = "returned"

\* the shapes of a `.result` element of the search page: with title and
\* url, without title, without url
RawKinds == {"valid", "notitle", "nourl"}

\* $(".result").slice(0, 3).each(... if (title && url) results.push(...)):
\* the positions, among the first ResultLimit elements, of those that have
\* a title and a url
RECURSIVE Extract(_, _)
Extract(raw, k) ==
  IF k > Len(raw) \/ k > ResultLimit THEN <<>>
  ELSE IF raw[k] = "valid" THEN <<k>> \o Extract(raw, k + 1)
  ELSE Extract(raw, k + 1)

\* what the body of the for..of loop over the results pushes to summaries
\* for result id: the page text if the fetch returned an ok response whose
\* body could be read, the snippet otherwise (else branch and catch block)
SummaryEntryNoCatch(list, id, outcome) ==
  IF outcome \in {"throws", "bodythrows"} THEN list
  ELSE Append(list, [id |-> id,
                     content |-> IF outcome = "ok" THEN "page"
                                 ELSE "snippet"])
SummaryEntry(list, id, outcome) ==
  Append(list, [id |-> id,
                content |-> IF outcome = "ok" THEN "page" ELSE "snippet"])

\* webresearch({ query }) is called
WebInit == ToolStart("search", [query |-> "q"])

\* the search request throws after its retries: the outer catch returns
WebSearchThrows ==
  /\ tpc = "search"
  /\ effects' = Append(effects, Effect("search", 0, "throws"))
  /\ Return(<<"Error performing web research:", "message">>)
  /\ UNCHANGED <<agentVars, retryVars, fetchVars, input, items, ti, entries>>

\* the search response is not ok
WebSearchNotOk ==
  /\ tpc = "search"
  /\ effects' = Append(effects, Effect("search", 0, "notok"))
  /\ Return(<<"Error: Failed to perform search. Status:", "status">>)
  /\ UNCHANGED <<agentVars, retryVars, fetchVars, input, items, ti, entries>>

\* the search page is parsed: up to ResultLimit results are extracted; with
\* none the handler returns, otherwise the loop over the results starts
WebSearchParsed ==
  /\ tpc = "search"
  /\ effects' = Append(effects, Effect("search", 0, "ok"))
  /\ \E n \in 0..MaxRaw :
       \E raw \in [1..n -> RawKinds] :
         /\ items' = Extract(raw, 1)
         /\ IF items' = <<>>
              THEN Return(<<"No search results found for query:", "q">>)
              ELSE /\ tpc' = "pages"
                   /\ UNCHANGED result
  /\ UNCHANGED <<agentVars, retryVars, fetchVars, input, ti, entries>>

\* one iteration of the loop: the page of the current result is fetched
\* (ok, not ok, the fetch throws after its retries, or reading the body
\* throws) and one entry is pushed to summaries
WebPage ==
  /\ tpc = "pages"
  /\ ti <= Len(items)
  /\ \E outcome \in {"ok", "notok", "throws", "bodythrows"} :
       /\ effects' = Append(effects, Effect("page", items[ti], outcome))
       /\ entries' = SummaryEntry(entries, items[ti], outcome)
  /\ ti' = ti + 1
  /\ UNCHANGED <<agentVars, retryVars, fetchVars, input, items, tpc, result>>

\* after the loop the summary call is made with the entries of summaries;
\* it returns text, returns no content, or throws after its retries
WebSummary ==
  /\ tpc = "pages"
  /\ ti > Len(items)
  /\ \E outcome \in {"text", "none", "throws"} :
       /\ effects' = Append(effects, Effect("summary", Len(entries), outcome))
       /\ Return(IF outcome = "throws"
                   THEN <<"Error performing web research:", "message">>
                   ELSE <<"Web Research Results for", "q",
                          IF outcome = "text" THEN "summary"
                          ELSE "No summary available">>)
  /\ UNCHANGED <<agentVars, retryVars, fetchVars, input, items, ti, entries>>

WebNext ==
  \/ WebSearchThrows
  \/ WebSearchNotOk
  \/ WebSearchParsed
  \/ WebPage
  \/ WebSummary

WebSpec == WebInit /\ [][WebNext]_vars

\* -------------------------------------------------- image_search_analysis
\* the shapes of an element matched by one of the selectors: an absolute
\* image address, no data-src/src attribute, a relative address, the
\* duckduckgo.com/y.js tracker
ImgKinds == {"http", "nosrc", "relative", "tracker"}

\* for (const selector of selectors) $(selector).each(...): the matched
\* elements in order; an element is pushed when fewer than ImageLimit
\* addresses were pushed and its address passes the test of line 67
RECURSIVE SelectorUrls(_, _, _)
SelectorUrls(raw, k, found) ==
  IF k > Len(raw) \/ Len(found) >= ImageLimit THEN found
  ELSE SelectorUrls(raw, k + 1,
                    IF raw[k] = "http"
                      THEN Append(found, [from |-> "selector", pos |-> k])
                      ELSE found)

\* imageMatches.slice(0, 3) of the n addresses matched in the script text
ScriptUrls(n) ==
  [k \in 1..(IF n < ImageLimit THEN n ELSE ImageLimit) |->
     [from |-> "script", pos |-> k]]

\* data.results.slice(0, 3).forEach(result => if (result.image) push)
RECURSIVE AltUrls(_, _)
AltUrls(results, k) ==
  IF k > Len(results) \/ k > ImageLimit THEN <<>>
  ELSE IF results[k] = "image"
         THEN <<[from |-> "alt", pos |-> k]>> \o AltUrls(results, k + 1)
  ELSE AltUrls(results, k + 1)

\* if (imageUrls.length === 0): nothing was found so far
NoImagesIgnored(urls) == FALSE
NoImages(urls) == urls = <<>>

\* Math.min(imageUrls.length, 3): how many images are analysed
AnalysisCount(urls) == IF Len(urls) < ImageLimit THEN Len(urls) ELSE ImageLimit

\* what the body of the analysis loop pushes to analyses for image number i:
\* the model's text, 'No analysis available' when the reply has no content,
\* the failure placeholder when the call throws after its retries
AnalysisEntryNoCatch(list, i, url, outcome) ==
  IF outcome = "throws" THEN list
  ELSE Append(list, [imageUrl |-> url, imageNumber |-> i,
                     analysis |-> IF outcome = "text" THEN "analysis"
                                  ELSE "No analysis available"])
AnalysisEntry(list, i, url, outcome) ==
  Append(list, [imageUrl |-> url, imageNumber |-> i,
                analysis |-> CASE outcome = "text" -> "analysis"
                               [] outcome = "none" -> "No analysis available"
                               [] OTHER -> "Failed to analyze this image:"])

\* image_search_analysis({ query }) is called
ImageSearchInit == ToolStart("imagesearch", [query |-> "q"])

\* the search request throws after its retries: the outer catch returns
ImgSearchThrows ==
  /\ tpc = "imagesearch"
  /\ effects' = Append(effects, Effect("search", 0, "throws"))
  /\ Return(<<"Error performing image search analysis:", "message">>)
  /\ UNCHANGED <<agentVars, retryVars, fetchVars, input, items, ti, entries>>

\* the search response is not ok
ImgSearchNotOk ==
  /\ tpc = "imagesearch"
  /\ effects' = Append(effects, Effect("search", 0, "notok"))
  /\ Return(<<"Error: Failed to perform image search. Status:", "status">>)
  /\ UNCHANGED <<agentVars, retryVars, fetchVars, input, items, ti, entries>>

\* the search page is read (or reading it throws) and loaded
ImgSearchOk ==
  /\ tpc = "imagesearch"
  /\ \E outcome \in {"ok", "bodythrows"} :
       /\ effects' = Append(effects, Effect("search", 0, outcome))
       /\ IF outcome = "ok"
            THEN /\ tpc' = "selectors"
                 /\ UNCHANGED result
            ELSE Return(<<"Error performing image search analysis:",
                          "message">>)
  /\ UNCHANGED <<agentVars, retryVars, fetchVars, input, items, ti, entries>>

\* the selectors are tried on the page
ImgSelectors ==
  /\ tpc = "selectors"
  /\ \E n \in 0..MaxRaw :
       \E raw \in [1..n -> ImgKinds] :
         items' = SelectorUrls(raw, 1, <<>>)
  /\ tpc' = IF NoImages(items') THEN "script" ELSE "analyze"
  /\ UNCHANGED <<agentVars, retryVars, fetchVars>>
  /\ UNCHANGED <<input, ti, entries, effects, result>>

\* nothing from the selectors: the text of the script tags is scanned
ImgScript ==
  /\ tpc = "script"
  /\ \E n \in 0..MaxRaw : items' = ScriptUrls(n)
  /\ tpc' = IF NoImages(items') THEN "alt" ELSE "analyze"
  /\ UNCHANGED <<agentVars, retryVars, fetchVars>>
  /\ UNCHANGED <<input, ti, entries, effects, result>>

\* still nothing: the i.js endpoint is asked, inside its own try/catch; the
\* request throws after its retries, is not ok, its body is not JSON, has
\* no results field, or has results; with no address after that the handler
\* returns the 'No images found' message
ImgAlt ==
  /\ tpc = "alt"
  /\ \E outcome \in {"throws", "notok", "jsonthrows", "noresults", "ok"} :
       /\ effects' = Append(effects, Effect("alt", 0, outcome))
       /\ IF outcome = "ok"
            THEN \E n \in 0..MaxRaw :
                   \E results \in [1..n -> {"image", "noimage"}] :
                     items' = AltUrls(results, 1)
            ELSE items' = items
  /\ IF NoImages(items')
       THEN Return(<<"No images found for query", "q">>)
       ELSE /\ tpc' = "analyze"
            /\ UNCHANGED result
  /\ UNCHANGED <<agentVars, retryVars, fetchVars, input, ti, entries>>

\* one iteration of the analysis loop: the vision model is asked about the
\* current image (text, no content, or the call throws after its retries)
\* and one entry is pushed to analyses
ImgAnalyze ==
  /\ tpc = "analyze"
  /\ ti <= AnalysisCount(items)
  /\ \E outcome \in {"text", "none", "throws"} :
       /\ effects' = Append(effects, Effect("vision", items[ti], outcome))
       /\ entries' = AnalysisEntry(entries, ti, items[ti], outcome)
  /\ ti' = ti + 1
  /\ UNCHANGED <<agentVars, retryVars, fetchVars, input, items, tpc, result>>

\* after the loop the combined summary is asked for with the entries of
\* analyses; it returns text, returns no content, or throws after its retries
ImgSummary ==
  /\ tpc = "analyze"
  /\ ti > AnalysisCount(items)
  /\ \E outcome \in {"text", "none", "throws"} :
       /\ effects' = Append(effects, Effect("summary", Len(entries), outcome))
       /\ Return(IF outcome = "throws"
                   THEN <<"Error performing image search analysis:",
                          "message">>
                   ELSE <<"Image Search Analysis Results for", "q",
                          IF outcome = "text" THEN "summary"
                          ELSE "No summary available">>)
  /\ UNCHANGED <<agentVars, retryVars, fetchVars, input, items, ti, entries>>

ImageSearchNext ==
  \/ ImgSearchThrows
  \/ ImgSearchNotOk
  \/ ImgSearchOk
  \/ ImgSelectors
  \/ ImgScript
  \/ ImgAlt
  \/ ImgAnalyze
  \/ ImgSummary

ImageSearchSpec == ImageSearchInit /\ [][ImageSearchNext]_vars

\* ----------------------------------------------------------- analyze_image
\* the beginnings and the extensions of the `path` argument
Schemes == {"http://", "https://", ""}
Extensions == {".jpg", ".jpeg", ".png", ".gif", ".webp", ".bmp", ""}

\* imagePath.startsWith("http://") || imagePath.startsWith("https://")
IsUrl(imagePath) == imagePath.scheme \in {"http://", "https://"}

\* switch (ext): the MIME type of a local file, image/jpeg by default
MimeType(ext) ==
  CASE ext \in {".jpg", ".jpeg"} -> "image/jpeg"
    [] ext = ".png" -> "image/png"
    [] ext = ".gif" -> "image/gif"
    [] ext = ".webp" -> "image/webp"
    [] OTHER -> "image/jpeg"

\* if (!testResponse.ok) return ...: the HEAD response lets the call go on
HeadPassesAnyStatus(outcome) == outcome # "throws"
HeadPasses(outcome) == outcome = "ok"

\* analyze_image({ path, prompt }) is called
AnalyzeImageInit ==
  \E s \in Schemes, e \in Extensions :
    ToolStart("imagecheck", [path |-> [scheme |-> s, ext |-> e]])

\* a web address: the HEAD request is ok, is not ok, or throws after its
\* retries (inner catch); only an ok response leads on to the model call
AiHead ==
  /\ tpc = "imagecheck"
  /\ IsUrl(input.path)
  /\ \E outcome \in {"ok", "notok", "throws"} :
       /\ effects' = Append(effects, Effect("head", input.path, outcome))
       /\ IF HeadPasses(outcome)
            THEN /\ items' = <<[url |-> input.path]>>
                 /\ tpc' = "vision"
                 /\ UNCHANGED result
            ELSE /\ Return(IF outcome = "throws"
                             THEN <<"Error: Failed to access image URL",
                                    input.path, "message">>
                             ELSE <<"Error: Image URL returned status",
                                    "status", input.path>>)
                 /\ UNCHANGED items
  /\ UNCHANGED <<agentVars, retryVars, fetchVars, input, ti, entries>>

\* a local path: the file is read and encoded, or readFile throws and the
\* outer catch returns by the error's code
AiReadFile ==
  /\ tpc = "imagecheck"
  /\ ~IsUrl(input.path)
  /\ \E outcome \in {"ok", "ENOENT", "EACCES", "EISDIR"} :
       /\ effects' = Append(effects, Effect("readFile", input.path, outcome))
       /\ IF outcome = "ok"
            THEN /\ items' = <<[url |-> <<"data:", MimeType(input.path.ext),
                                          ";base64,", "bytes">>]>>
                 /\ tpc' = "vision"
                 /\ UNCHANGED result
            ELSE /\ Return(CASE outcome = "ENOENT" ->
                                  <<"Error: Image file", input.path,
                                    "does not exist.">>
                             [] outcome = "EACCES" ->
                                  <<"Error: Permission denied accessing image",
                                    input.path>>
                             [] OTHER ->
                                  <<"Error analyzing image", input.path,
                                    "message">>)
                 /\ UNCHANGED items
  /\ UNCHANGED <<agentVars, retryVars, fetchVars, input, ti, entries>>

\* the vision model is asked: text, no content, or the call throws after its
\* retries (outer catch, an error without ENOENT/EACCES code)
AiVision ==
  /\ tpc = "vision"
  /\ \E outcome \in {"text", "none", "throws"} :
       /\ effects' = Append(effects, Effect("vision", items[1].url, outcome))
       /\ Return(CASE outcome = "text" -> <<"Image Analysis:", "analysis">>
                   [] outcome = "none" ->
                        <<"Image Analysis:", "No analysis available">>
                   [] OTHER ->
                        <<"Error analyzing image", input.path, "message">>)
  /\ UNCHANGED <<agentVars, retryVars, fetchVars, input, items, ti, entries>>

AnalyzeImageNext ==
  \/ AiHead
  \/ AiReadFile
  \/ AiVision

AnalyzeImageSpec == AnalyzeImageInit /\ [][AnalyzeImageNext]_vars

\* ------------------------------------------------------------- run_command
\* the commands the model passes
Commands == {"exit 1", "ls", "make", "sleep 999"}

\* what execAsync can settle with. Resolved: exit code 0. Rejected with an
\* error that carries code, signal, killed, stdout and stderr: the command
\* exited with a non-zero code (killed is true when the timeout's SIGTERM was
\* sent and the command handled it and exited by itself), or it was ended by
\* a signal (killed is true when exec sent it, which it does on timeout), or
\* exec threw before it spawned anything (no signal, no output on the error)
Outputs == {"", "out"}
ExecResolved ==
  [error : {FALSE}, code : {"0"}, signal : {"null"}, killed : {FALSE},
   stdout : Outputs, stderr : {"", "err"}]
ExecExited ==
  [error : {TRUE}, code : {"1", "2", "127"}, signal : {"null"},
   killed : BOOLEAN, stdout : Outputs, stderr : {"", "err"}]
ExecSignalled ==
  [error : {TRUE}, code : {"null"}, signal : {"SIGTERM", "SIGKILL"},
   killed : BOOLEAN, stdout : Outputs, stderr : {"", "err"}]
ExecThrew ==
  [error : {TRUE}, code : {"ERR_INVALID_ARG_TYPE"}, signal : {"undefined"},
   killed : {FALSE}, stdout : {"undefined"}, stderr : {"undefined"}]
ExecResults(command) ==
  IF command = "exit 1"
    THEN {[error |-> TRUE, code |-> "1", signal |-> "null",
           killed |-> FALSE, stdout |-> "", stderr |-> ""]}
    ELSE ExecResolved \cup ExecExited \cup ExecSignalled \cup ExecThrew

\* value ?? fallback
Coalesce(value, fallback) ==
  IF value \in {"undefined", "null"} THEN fallback ELSE value

\* err.signal === "SIGTERM" && err.killed
IsTimeoutAnyKill(err) == err.killed
IsTimeout(err) == err.signal = "SIGTERM" /\ err.killed

\* the string run_command returns for what execAsync settled with
RunCommandResult(command, r) ==
  IF ~r.error
    THEN IF r.stderr # "" THEN <<"STDERR:", r.stderr, "STDOUT:", r.stdout>>
         ELSE <<r.stdout>>
  ELSE IF IsTimeout(r)
    THEN <<"Command timed out after", COMMAND_EXECUTION, "ms:", command>>
  ELSE <<"Command failed with exit code", Coalesce(r.code, "unknown"),
         "STDOUT:", Coalesce(r.stdout, ""),
         "STDERR:", Coalesce(r.stderr, ""), "Error:", "message">>

\* run_command({ command }) is called
RunCommandInit == \E c \in Commands : ToolStart("exec", [command |-> c])

\* execAsync settles and the handler returns
RunCommand ==
  /\ tpc = "exec"
  /\ \E r \in ExecResults(input.command) :
       /\ effects' = Append(effects, Effect("exec", input.command, r))
       /\ Return(RunCommandResult(input.command, r))
  /\ UNCHANGED <<agentVars, retryVars, fetchVars, input, items, ti, entries>>

RunCommandNext == RunCommand

RunCommandSpec == RunCommandInit /\ [][RunCommandNext]_vars

\* -------------------------------------------------------------- write_file
\* the characters of `content`, by code point: one, one and two UTF-16
\* code units
Chars == {"a", "U+00E9", "U+1F600"}
Contents == UNION {[1..n -> Chars] : n \in 0..MaxContent}
Paths == {"a.txt", "dir/b.txt", "undefined"}

\* content.length: the number of UTF-16 code units
CodeUnits(ch) == IF ch = "U+1F600" THEN 2 ELSE 1
RECURSIVE StringLength(_)
StringLength(content) ==
  IF content = <<>> THEN 0
  ELSE CodeUnits(Head(content)) + StringLength(Tail(content))

\* writeFile(full, content, "utf8"): the bytes one character is encoded to
Utf8Bytes(ch) ==
  CASE ch = "U+1F600" -> 4
    [] ch = "U+00E9" -> 2
    [] OTHER -> 1
\* the number of bytes writeFile writes for content
RECURSIVE BytesWritten(_)
BytesWritten(content) ==
  IF content = <<>> THEN 0
  ELSE Utf8Bytes(Head(content)) + BytesWritten(Tail(content))

\* how writeFile can settle: done, or rejected with an error code (or with
\* an error that has neither code nor message)
WriteOutcomes ==
  {"ok", "ENOENT", "EACCES", "ENOSPC", "EISDIR", "EROFS", "EMFILE",
   "undefined"}

\* the string write_file returns for how writeFile settled
WriteFileResultSharedText(filePath, content, outcome) ==
  IF outcome = "ok"
    THEN <<"Wrote", StringLength(content), "bytes to", filePath>>
  ELSE <<"Error writing file", filePath, "message">>
WriteFileResult(filePath, content, outcome) ==
  CASE outcome = "ok" ->
         <<"Wrote", StringLength(content), "bytes to", filePath>>
    [] outcome = "ENOENT" ->
         <<"Error: Directory for", filePath,
           "does not exist. Please create the directory first.">>
    [] outcome = "EACCES" ->
         <<"Error: Permission denied writing to", filePath>>
    [] outcome = "ENOSPC" ->
         <<"Error: No space left on device when writing to", filePath>>
    [] outcome = "EISDIR" ->
         <<"Error:", filePath, "is a directory, not a file.">>
    [] outcome = "EROFS" ->
         <<"Error: File system is read-only, cannot write to", filePath>>
    [] OTHER ->
         <<"Error writing file", filePath,
           IF outcome = "undefined" THEN "Unknown error" ELSE "message">>

\* write_file({ path, content }) is called
WriteFileInit ==
  \E p \in Paths, c \in Contents :
    ToolStart("resolve", [path |-> p, content |-> c])

\* path.resolve(process.cwd(), filePath), before the try block: it throws
\* when the argument object has no `path`
WriteFileResolve ==
  /\ tpc = "resolve"
  /\ tpc' = IF input.path = "undefined" THEN "threw" ELSE "write"
  /\ UNCHANGED <<agentVars, retryVars, fetchVars>>
  /\ UNCHANGED <<input, items, ti, entries, effects, result>>

\* writeFile settles and the handler returns
WriteFile ==
  /\ tpc = "write"
  /\ \E outcome \in WriteOutcomes :
       /\ effects' = Append(effects, Effect("writeFile", input.path, outcome))
       /\ Return(WriteFileResult(input.path, input.content, outcome))
  /\ UNCHANGED <<agentVars, retryVars, fetchVars, input, items, ti, entries>>

WriteFileNext ==
  \/ WriteFileResolve
  \/ WriteFile

WriteFileSpec == WriteFileInit /\ [][WriteFileNext]_vars

\* =================================================================== claims
\* ------------------------------------------------ transcript vocabulary
\* positions of the assistant messages that carry a tool_calls array
BatchPositions == { p \in 1..Len(messages) : messages[p].hasCalls }

\* the last of them: the batch the for..of loop works on (0 if none)
LastBatchPos ==
  IF BatchPositions = {} THEN 0
  ELSE CHOOSE p \in BatchPositions : \A q \in BatchPositions : q <= p

\* how many tool-role messages directly follow position p
RunLen(p) ==
  LET S == { k \in 0..(Len(messages) - p) :
               \A j \in 1..k : messages[p + j].role = "tool" }
  IN  CHOOSE k \in S : \A m \in S : m <= k

\* the for..of loop over the batch at p has been left without an exception
BatchOver(p) == p < LastBatchPos \/ idx > Len(batch)

\* position of the first done call of calls, or Len(calls) if there is none
FirstDoneOrEnd(calls) ==
  LET D == { i \in 1..Len(calls) : calls[i].name = "done" }
  IN  IF D = {} THEN Len(calls)
      ELSE CHOOSE i \in D : \A j \in D : i <= j

Range(f) == { f[i] : i \in DOMAIN f }

\* C1 (as stated): once the loop over a batch of N calls is over, exactly N
\* tool-role messages follow the assistant message, the i-th carrying the
\* id of the i-th call.
C1_ExactlyN ==
  \A p \in BatchPositions :
    BatchOver(p) =>
      /\ RunLen(p) = Len(messages[p].tool_calls)
      /\ \A i \in 1..Len(messages[p].tool_calls) :
           messages[p + i].tool_call_id = messages[p].tool_calls[i].id

\* C1 (amended): the tool-role messages that follow an assistant message
\* with N calls answer, in order, the first k <= N calls, the i-th carrying
\* the id of the i-th call; once the loop over the batch has been left
\* without an exception k is the position of the first done call, or N if
\* the batch has none; and every tool-role message of the transcript lies
\* in such a run, so it answers a call of the most recent assistant message
\* before it.
C1_OrderedPrefix ==
  /\ \A p \in BatchPositions :
       LET calls == messages[p].tool_calls
           k == RunLen(p)
       IN  /\ k <= Len(calls)
           /\ \A i \in 1..k : messages[p + i].tool_call_id = calls[i].id
           /\ BatchOver(p) => k = FirstDoneOrEnd(calls)
  /\ \A q \in 1..Len(messages) :
       messages[q].role = "tool" =>
         \E p \in BatchPositions :
           /\ p < q
           /\ q <= p + RunLen(p)
           /\ \A r \in (p + 1)..(q - 1) : messages[r].role # "assistant"
           /\ messages[q].tool_call_id = messages[p].tool_calls[q - p].id

\* a batch of three calls without done was worked through and answered by
\* three tool-role messages
C1_Witness ==
  \E p \in BatchPositions :
    /\ BatchOver(p)
    /\ Len(messages[p].tool_calls) = 3
    /\ RunLen(p) = 3
    /\ Len(dispatched) = 3

\* C2 (as stated, for batches whose arguments are all well-formed): if call
\* K < N of a batch names done, calls K+1..N are never handed to a handler
\* and the run ends completed: flag set, acknowledgement for call K in the
\* transcript, completion reported.
C2_DoneCompletes ==
  \A p \in BatchPositions :
    LET calls == messages[p].tool_calls
    IN  \A K \in 1..(Len(calls) - 1) :
          ( /\ calls[K].name = "done"
            /\ \A i \in 1..Len(calls) : calls[i].args = "ok" )
          =>
          /\ \A j \in (K + 1)..Len(calls) : calls[j].id \notin Range(dispatched)
          /\ pc \in {"returned", "failed"} =>
                /\ pc = "returned"
                /\ isTaskComplete
                /\ "completed" \in log
                /\ \E q \in 1..Len(messages) :
                     /\ messages[q].role = "tool"
                     /\ messages[q].tool_call_id = calls[K].id

\* a response with tool calls that names done has been received, or a done
\* call has been processed
DoneObserved ==
  \/ isTaskComplete
  \/ \E i \in 1..Len(batch) : batch[i].name = "done"

\* C3: once a done call has been observed (received in a response, or
\* processed), no step issues an orchestrator LLM call: neither the
\* follow-up call of that turn nor the main call of a later turn.
C3_NoCallAfterDone ==
  [][ DoneObserved => (llmCalls' = llmCalls /\ turnCount' = turnCount) ]_vars

\* read_file on turn 1, done on turn 2: completed after exactly 2 turns and
\* 3 LLM calls (enhancement, two main calls)
C3_Witness ==
  /\ pc = "returned"
  /\ isTaskComplete
  /\ log = {"completed"}
  /\ turnCount = 2
  /\ llmCalls \in {3, 4}
  /\ Len(dispatched) = 1
  /\ \E p \in BatchPositions :
       /\ p < LastBatchPos
       /\ Len(messages[p].tool_calls) = 1
       /\ messages[p].tool_calls[1].name = "read_file"
  /\ Len(batch) = 1
  /\ batch[1].name = "done"

\* C4 (as stated): when the main call of a turn returns a message without
\* tool calls, the message is appended, the loop is left, and from then on
\* no LLM call and no turn follows.
C4_IdleExit ==
  [][ /\ ( /\ mainCalls' = mainCalls + 1
           /\ Len(messages') = Len(messages) + 1
           /\ Len(messages'[Len(messages')].tool_calls) = 0 )
         => ( /\ messages'[Len(messages')].role = "assistant"
              /\ pc' = "report" )
      /\ pc \in {"report", "returned"}
         => (llmCalls' = llmCalls /\ turnCount' = turnCount) ]_vars

\* C5 (as stated): a run that returns without done has made exactly
\* maxTurns main calls and reports the maximum-turns outcome only.
C5_ExactlyMaxTurns ==
  (pc = "returned" /\ ~isTaskComplete)
    => (mainCalls = maxTurns /\ turnCount = maxTurns /\ log = {"max_turns"})

\* C5 (amended): turnCount counts the main calls and never exceeds
\* maxTurns; a run in which done was not signalled and which left the loop
\* by its condition (not by the break of the idle exit, not by a fatal
\* error) has made exactly maxTurns main calls, and reports the
\* maximum-turns outcome and not completion.
C5_TurnBudget ==
  /\ mainCalls = turnCount
  /\ turnCount <= maxTurns
  /\ (leftBy = "condition" /\ ~isTaskComplete)
       => /\ mainCalls = maxTurns
          /\ pc \in {"report", "returned"}
          /\ pc = "returned" => log = {"max_turns"}

\* the loop ran out of turns without done, and said so
C5_Witness ==
  /\ pc = "returned"
  /\ leftBy = "condition"
  /\ ~isTaskComplete
  /\ mainCalls = maxTurns
  /\ log = {"max_turns"}
  /\ dispatched # <<>>

\* C6: outside a dispatch the process is in the directory it was in before
\* the dispatch began (the launch directory, which nothing else changes),
\* also after the handler threw or no handler was registered; the target
\* directory is in force only while a handler is in flight.
C6_CwdRestored ==
  /\ pc # "handler" => cwd = LaunchDir
  /\ pc = "handler" => (cwd = workingDir /\ originalCwd = LaunchDir)

\* a handler threw, the run is over, the process is back where it was
C6_Witness ==
  /\ pc = "failed"
  /\ dispatched # <<>>
  /\ idx <= Len(batch)
  /\ batch[idx].id = dispatched[Len(dispatched)]
  /\ HandlerOutcome(batch[idx]) = "threw"
  /\ workingDir # LaunchDir
  /\ cwd = LaunchDir

\* C10 (as stated): a call that names an unregistered tool does not end
\* the run: the run is never in the failed state at such a call.
C10_UnknownToolSurvives ==
  ~ ( /\ pc = "failed"
      /\ idx <= Len(batch)
      /\ batch[idx].args = "ok"
      /\ ~IsRegistered(batch[idx].name) )

\* C11 (as stated): every call of a registered handler returns a string:
\* the step that ends a dispatch appends the tool-role message of the call
\* and the loop over the batch goes on; no dispatch ends with an exception
\* that leaves the agent loop.
C11_HandlersReturn ==
  [][ pc = "handler" =>
        /\ pc' = "batch"
        /\ Len(messages') = Len(messages) + 1
        /\ messages'[Len(messages')].role = "tool"
        /\ messages'[Len(messages')].tool_call_id = batch[idx].id ]_vars

\* C12: when the main call of a turn fails for good, the run is over in the
\* failed state with exit status 1 and no outcome line printed; that step
\* appends nothing and dispatches nothing, and afterwards no step makes an
\* LLM call, dispatches a tool, appends to the transcript or reports.
C12_MainFailureFatal ==
  /\ [](fatal = "main" => (pc = "failed" /\ exitCode = 1 /\ log = {}))
  /\ [][ fatal' = "main" =>
           /\ messages' = messages
           /\ dispatched' = dispatched
           /\ isTaskComplete' = isTaskComplete
           /\ log' = log ]_vars
  /\ [][ fatal = "main" =>
           /\ llmCalls' = llmCalls
           /\ turnCount' = turnCount
           /\ exitCode' = exitCode ]_vars

\* the main call of the second turn failed after a tool had been dispatched
\* in the first
C12_Witness ==
  /\ fatal = "main"
  /\ pc = "failed"
  /\ exitCode = 1
  /\ turnCount = 2
  /\ mainCalls = 2
  /\ Len(dispatched) = 1
  /\ Len(messages) >= 4

\* C13 (as stated): the maximum-turns outcome is reported only for a run
\* that left the loop by its condition without done, never together with
\* the completion outcome and never for a run that ended by the idle exit.
C13_Distinguishable ==
  (pc = "returned" /\ "max_turns" \in log) =>
    /\ ~isTaskComplete
    /\ "completed" \notin log
    /\ leftBy = "condition"

\* every tool call of every assistant message of the transcript is followed
\* by its tool-role message
AllAnswered ==
  \A p \in BatchPositions : RunLen(p) = Len(messages[p].tool_calls)

\* C14: a step that issues an orchestrator LLM call starts from a transcript
\* in which every tool call of every assistant message has its tool-role
\* message, and is never taken while the loop over a batch is under way or
\* a handler is in flight.
C14_NoCallMidBatch ==
  [][ llmCalls' # llmCalls =>
        /\ AllAnswered
        /\ pc \in {"enhance", "loop", "followup"} ]_vars

\* the follow-up call of a turn was issued after both calls of its batch
\* had been answered
C14_Witness ==
  /\ pc = "loop"
  /\ turnCount = 1
  /\ llmCalls = 3
  /\ Len(batch) = 2
  /\ LastBatchPos # 0
  /\ RunLen(LastBatchPos) = 2
  /\ Len(dispatched) = 2

\* C15: every step leaves the transcript as it is or appends to it: the old
\* transcript is a prefix of the new one.
C15_AppendOnly ==
  [][ /\ Len(messages') >= Len(messages)
      /\ SubSeq(messages', 1, Len(messages)) = messages ]_vars

\* a transcript grown by the pushes of a whole run: system, user, assistant
\* with a tool call, its result, follow-up text, final text
C15_Witness ==
  /\ pc = "returned"
  /\ Len(messages) = 6
  /\ messages[1].role = "system"
  /\ messages[2].role = "user"
  /\ messages[3].hasCalls
  /\ messages[4].role = "tool"
  /\ messages[5].role = "assistant"
  /\ ~messages[5].hasCalls
  /\ messages[6].role = "assistant"
  /\ ~messages[6].hasCalls

\* the dispatched calls that have no tool-role message yet
Unanswered ==
  { k \in 1..Len(dispatched) :
      \A q \in 1..Len(messages) :
        ~ ( /\ messages[q].role = "tool"
            /\ messages[q].tool_call_id = dispatched[k] ) }

\* C16: at most one handler is in flight and it is the last one dispatched;
\* calls are dispatched in request order (ids grow); a step that dispatches
\* a call starts with every earlier dispatched call answered; the process
\* is in the target directory exactly while a handler is in flight, and in
\* the original directory at every orchestrator LLM call.
C16_Sequential ==
  /\ [] ( /\ Cardinality(Unanswered) <= 1
          /\ Unanswered \subseteq {Len(dispatched)}
          /\ \A k \in 1..(Len(dispatched) - 1) :
               dispatched[k] < dispatched[k + 1]
          /\ pc = "handler" <=> cwd = workingDir
          /\ pc = "handler" => Unanswered = {Len(dispatched)}
          /\ pc # "handler" => cwd = LaunchDir )
  /\ [][ dispatched' # dispatched =>
           (Unanswered = {} /\ pc = "batch") ]_vars
  /\ [][ llmCalls' # llmCalls => (cwd = LaunchDir /\ pc # "handler") ]_vars

\* the second handler of a batch is in flight, the first one answered, the
\* process in the target directory
C16_Witness ==
  /\ pc = "handler"
  /\ idx = 2
  /\ Len(dispatched) = 2
  /\ Unanswered = {2}
  /\ cwd = workingDir
  /\ cwd # LaunchDir
  /\ RunLen(LastBatchPos) = 1

\* C21 (as stated): a run never ends before its first main call: every run
\* that starts the enhancement call goes on to the first main call.
C21_AlwaysRuns ==
  ~(pc = "failed" /\ mainCalls = 0)

\* the transcript the first main call is issued with
FirstTranscripts ==
  { << Msg("system", "systemPrompt", FALSE, <<>>, 0),
       Msg("user", text, FALSE, <<>>, 0) >> : text \in {"enhanced", "task"} }

\* C21 (amended): the enhancement step either fails for good, which ends
\* the run in the failed state with an empty transcript and no main call,
\* or returns, and then the loop is entered with the transcript [system
\* prompt, user message], the user message being the enhancement text or,
\* when the response has no content, the original request; from there the
\* loop condition holds and the only step the run can take is the first
\* main call, issued with that transcript.
C21_EnhanceThenRun ==
  /\ [][ pc = "enhance" =>
           \/ /\ pc' = "loop"
              /\ messages' \in FirstTranscripts
              /\ mainCalls' = 0
           \/ /\ pc' = "failed"
              /\ fatal' = "enhance"
              /\ messages' = <<>>
              /\ mainCalls' = 0 ]_vars
  /\ [] ( (pc = "loop" /\ mainCalls = 0) =>
            /\ messages \in FirstTranscripts
            /\ LoopContinues(isTaskComplete, turnCount)
            /\ llmCalls = 1 )
  /\ [] ( mainCalls = 0 => pc \in {"enhance", "loop", "failed"} )
  /\ [][ (pc = "loop" /\ mainCalls = 0) =>
           (mainCalls' = 1 /\ llmCalls' = 2 /\ turnCount' = 1) ]_vars

\* the enhancement response had no content: the first main call was issued
\* with the original request as the user message
C21_Witness ==
  /\ mainCalls = 1
  /\ turnCount = 1
  /\ llmCalls = 2
  /\ Len(messages) >= 2
  /\ messages[1].role = "system"
  /\ messages[2].role = "user"
  /\ messages[2].content = "task"

\* ------------------------------------------------------ follow-up call claim
\* this step sends the follow-up request
FollowUpIssued ==
  /\ llmCalls' = llmCalls + 1
  /\ lastRequest'.kind = "followup"

\* C28: the follow-up request is sent only when the for..of loop over the
\* turn's tool calls is over, every dispatched call is answered and `done`
\* was not signaled; it directly follows the turn's main request, so a turn
\* has at most one; it carries no `tools`; it leaves the transcript alone or
\* appends one assistant text message. A turn whose batch was processed
\* goes on to the next turn only through the follow-up request or with
\* `done` signaled, and once `done` is signaled no request is sent any
\* more. The requests of a run are at most the enhancement request and two
\* per turn.
C28_OneFollowUp ==
  /\ [] ( /\ pc = "followup" =>
               /\ ~isTaskComplete
               /\ BatchExhausted(idx, batch)
               /\ Unanswered = {}
               /\ lastRequest.kind = "main"
          /\ lastRequest.kind = "followup" => ~lastRequest.tools
          /\ mainCalls = turnCount
          /\ llmCalls <= 1 + 2 * turnCount
          /\ pc \in {"batch", "handler", "followup"} =>
               llmCalls <= 2 * turnCount )
  /\ [][ /\ FollowUpIssued =>
              /\ pc = "followup"
              /\ pc' # "followup"
              /\ lastRequest.kind = "main"
              /\ ~lastRequest'.tools
              /\ \/ messages' = messages
                 \/ messages' = Append(messages, Msg("assistant", "text",
                                                     FALSE, <<>>, 0))
         /\ (pc \in {"batch", "handler"} /\ pc' \in {"loop", "report"}) =>
              isTaskComplete
         /\ (pc = "followup" /\ pc' = "loop") => FollowUpIssued
         /\ isTaskComplete => llmCalls' = llmCalls ]_vars

\* one turn with two tool calls and no `done`: both calls were answered,
\* then the follow-up request was sent without tools and its text appended
C28_Witness ==
  /\ pc = "loop"
  /\ turnCount = 1
  /\ llmCalls = 3
  /\ lastRequest = [kind |-> "followup", tools |-> FALSE]
  /\ Len(messages) = 6
  /\ Len(messages[3].tool_calls) = 2
  /\ messages[4].role = "tool"
  /\ messages[5].role = "tool"
  /\ messages[6] = Msg("assistant", "text", FALSE, <<>>, 0)
  /\ ~isTaskComplete

\* ------------------------------------------ parse errors, counters, continue
\* the tool calls of the transcript whose arguments are not valid JSON
BadJsonCalls ==
  { c \in UNION { { messages[p].tool_calls[i] :
                      i \in 1..Len(messages[p].tool_calls) } :
                  p \in BatchPositions } : c.args = "badjson" }

\* the for..of loop is about to process a call whose arguments do not parse
AtBadJson ==
  /\ pc = "batch"
  /\ ~BatchExhausted(idx, batch)
  /\ batch[idx].args = "badjson"

\* C33: a tool call whose arguments are not valid JSON is never dispatched
\* and never answered by a tool-role message; the step that processes it
\* ends the run with exit status 1 and changes neither the working
\* directory nor the transcript nor the completion flag (also when the call
\* names `done`), and after it nothing runs any more: no call, no request,
\* no turn.
C33_BadJsonAborts ==
  /\ [] ( /\ \A c \in BadJsonCalls :
               /\ \A k \in 1..Len(dispatched) : dispatched[k] # c.id
               /\ \A q \in 1..Len(messages) :
                    ~ ( /\ messages[q].role = "tool"
                        /\ messages[q].tool_call_id = c.id )
          /\ fatal = "parse" =>
               /\ pc = "failed"
               /\ exitCode = 1
               /\ batch[idx].args = "badjson"
               /\ cwd = LaunchDir
               /\ ~isTaskComplete )
  /\ [][ /\ AtBadJson =>
              /\ pc' = "failed"
              /\ fatal' = "parse"
              /\ exitCode' = 1
              /\ UNCHANGED <<messages, cwd, isTaskComplete, dispatched,
                             llmCalls, turnCount, idx>>
         /\ pc = "failed" => FALSE ]_vars

\* one call was dispatched and answered, then a `done` call with arguments
\* that do not parse ended the run: the flag is not set
C33_Witness ==
  /\ fatal = "parse"
  /\ pc = "failed"
  /\ idx = 2
  /\ batch[idx].name = "done"
  /\ Len(dispatched) = 1
  /\ messages[Len(messages)].role = "tool"
  /\ ~isTaskComplete
  /\ cwd = LaunchDir

\* C34: turnCount stays between 0 and maxTurns and equals the number of
\* main calls made; the completion flag is never reset, and it is set only
\* by the step that processes a `done` call, which appends that call's
\* acknowledgement.
C34_Counters ==
  /\ [] ( /\ 0 <= turnCount
          /\ turnCount <= maxTurns
          /\ mainCalls = turnCount )
  /\ [][ /\ isTaskComplete => isTaskComplete'
         /\ (~isTaskComplete /\ isTaskComplete') =>
              /\ pc = "batch"
              /\ ~BatchExhausted(idx, batch)
              /\ batch[idx].name = "done"
              /\ messages' = Append(messages,
                                    ToolMsg(batch[idx], "Task completed"))
         /\ turnCount' # turnCount =>
              /\ turnCount' = turnCount + 1
              /\ mainCalls' = mainCalls + 1 ]_vars

\* `done` was processed on the last turn of the budget
C34_Witness ==
  /\ turnCount = maxTurns
  /\ mainCalls = maxTurns
  /\ isTaskComplete
  /\ pc = "returned"

C35_Terminates ==
  /\ <>(pc \in {"returned", "failed"})
  /\ [] ( /\ turnCount <= maxTurns
          /\ llmCalls <= 1 + 2 * turnCount
          /\ llmCalls <= 1 + 2 * maxTurns
          /\ pc = "returned" =>
               \/ isTaskComplete
               \/ leftBy = "break"
               \/ turnCount = maxTurns /\ leftBy = "condition"
          /\ pc = "failed" => exitCode = 1 )
  /\ [][pc \notin {"returned", "failed"}]_vars

\* the turn budget was used up without `done`; one of the turns had made a
\* follow-up request
C35_Witness ==
  /\ pc = "returned"
  /\ turnCount = maxTurns
  /\ leftBy = "condition"
  /\ ~isTaskComplete
  /\ llmCalls > 1 + maxTurns
  /\ log = {"max_turns"}

\* ------------------------------------------------------ withRetry claims
\* every attempt so far failed with an error the predicate accepts
AllRetryable == \A k \in 1..Len(thrown) : thrown[k] \in shouldRetry

\* C7: with maxAttempts >= 1 and an operation that fails every time with an
\* error the predicate accepts, the operation is invoked at most
\* maxAttempts times and the hook at most maxAttempts - 1 times; when the
\* promise is rejected the operation was invoked exactly maxAttempts times,
\* the hook exactly maxAttempts - 1 times, after attempts
\* 1..maxAttempts - 1 with that attempt's error, and the rejection carries
\* the error of the final attempt.
C7_Exhaustion ==
  (maxAttempts >= 1 /\ AllRetryable) =>
    /\ opCalls <= maxAttempts
    /\ Len(hookCalls) <= maxAttempts - 1
    /\ Len(thrown) = opCalls => rpc \in {"waiting", "rejected"}
    /\ rpc = "rejected" =>
         /\ opCalls = maxAttempts
         /\ Len(thrown) = maxAttempts
         /\ Len(hookCalls) = maxAttempts - 1
         /\ \A k \in 1..(maxAttempts - 1) : hookCalls[k] = <<thrown[k], k>>
         /\ settled = Rejected(thrown[maxAttempts])

\* maxAttempts = 3, three retryable failures, two hook calls, rejected
C7_Witness ==
  /\ maxAttempts = 3
  /\ rpc = "rejected"
  /\ AllRetryable
  /\ opCalls = 3
  /\ Len(hookCalls) = 2
  /\ settled.error \in shouldRetry

\* C8: an attempt that fails with an error the predicate rejects is the
\* last one: the promise is rejected with that error, the hook was not
\* called for it and no timer was armed for it, whatever maxAttempts is; if
\* it is the first attempt the operation was invoked exactly once.
C8_NonRetryable ==
  \A k \in 1..Len(thrown) :
    thrown[k] \notin shouldRetry =>
      /\ k = Len(thrown)
      /\ opCalls = k
      /\ rpc = "rejected"
      /\ settled = Rejected(thrown[k])
      /\ Len(hookCalls) = k - 1
      /\ Len(delays) = k - 1
      /\ \A h \in 1..Len(hookCalls) : hookCalls[h][2] # k

\* the first error is rejected by the predicate although six more attempts
\* were allowed: one invocation, no hook call, no delay
C8_Witness ==
  /\ maxAttempts = MaxAttemptsBound
  /\ rpc = "rejected"
  /\ opCalls = 1
  /\ thrown # <<>>
  /\ thrown[1] \notin shouldRetry
  /\ hookCalls = <<>>
  /\ delays = <<>>

\* b * m^e by repeated multiplication
RECURSIVE Times(_, _, _)
Times(b, m, e) == IF e = 0 THEN b ELSE m * Times(b, m, e - 1)

\* the delays of the default policy: 1000, 2000, 4000, 8000, 16000, then
\* 30000 from the sixth on
DefaultDelay(k) ==
  IF k >= 6 THEN 30000 ELSE <<1000, 2000, 4000, 8000, 16000>>[k]

\* C9: the k-th delay handed to setTimeout, after failed attempt k, is
\* min(baseDelay * multiplier^(k-1), maxDelay), a function of k and the
\* policy alone; under the default policy (1000, 2, 30000) the delays are
\* 1000, 2000, 4000, 8000, 16000 and 30000 from k = 6 on.
C9_Backoff ==
  /\ Len(delays) = Len(hookCalls)
  /\ \A k \in 1..Len(delays) :
       /\ hookCalls[k][2] = k
       /\ \/ delays[k] = Times(baseDelay, multiplier, k - 1)
                /\ delays[k] <= maxDelay
          \/ delays[k] = maxDelay
                /\ maxDelay <= Times(baseDelay, multiplier, k - 1)
       /\ (baseDelay = 1000 /\ multiplier = 2 /\ maxDelay = 30000)
            => delays[k] = DefaultDelay(k)

\* seven delays under the default policy, the last two capped
C9_Witness ==
  /\ baseDelay = 1000
  /\ multiplier = 2
  /\ maxDelay = 30000
  /\ Len(delays) >= 7
  /\ delays[5] = 16000
  /\ delays[6] = 30000
  /\ delays[7] = 30000

\* this step is the failure of attempt k with error e
FailsWith(k, e) ==
  /\ rpc = "attempt"
  /\ attempt = k
  /\ thrown' = Append(thrown, e)

\* C29: the first invocation of the operation is made at once, before any
\* hook call or timer. When attempt k < maxAttempts fails with an error the
\* predicate accepts, that same step calls the hook once, with that error
\* and k, and arms the timer with the delay for k, without invoking the
\* operation; while the timer is pending the hook call for k is already
\* made, and the hook was called once for each failed attempt so far. The
\* operation is invoked again only by the firing of that timer, as attempt
\* k + 1.
C29_HookThenWait ==
  /\ [] ( /\ opCalls >= 1
          /\ opCalls = attempt
          /\ (rpc = "attempt" /\ attempt = 1) =>
               (thrown = <<>> /\ hookCalls = <<>> /\ delays = <<>>)
          /\ \A h \in 1..Len(hookCalls) : hookCalls[h] = <<thrown[h], h>>
          /\ rpc = "attempt" =>
               (Len(hookCalls) = attempt - 1 /\ Len(delays) = attempt - 1)
          /\ rpc = "waiting" =>
               /\ Len(hookCalls) = attempt
               /\ Len(delays) = attempt
               /\ Len(thrown) = attempt
               /\ delays[attempt] = calculateDelay(attempt, baseDelay,
                                                   multiplier, maxDelay) )
  /\ [][ /\ \A e \in shouldRetry :
              (FailsWith(attempt, e) /\ attempt < maxAttempts) =>
                /\ hookCalls' = Append(hookCalls, <<e, attempt>>)
                /\ delays' = Append(delays,
                                    calculateDelay(attempt, baseDelay,
                                                   multiplier, maxDelay))
                /\ rpc' = "waiting"
                /\ opCalls' = opCalls
                /\ attempt' = attempt
         /\ opCalls' # opCalls =>
              /\ rpc = "waiting"
              /\ rpc' = "attempt"
              /\ opCalls' = opCalls + 1
              /\ attempt' = attempt + 1
              /\ UNCHANGED <<hookCalls, delays, thrown>> ]_vars

\* maxAttempts = 3: attempt 1 failed, the hook was called with (error, 1),
\* the timer with the first delay fired and attempt 2 is running
C29_Witness ==
  /\ maxAttempts = 3
  /\ rpc = "attempt"
  /\ attempt = 2
  /\ opCalls = 2
  /\ Len(thrown) = 1
  /\ thrown[1] \in shouldRetry
  /\ hookCalls = <<<<thrown[1], 1>>>>
  /\ delays = <<calculateDelay(1, baseDelay, multiplier, maxDelay)>>

\* C30 (as stated): against an operation that fails every time with an
\* error the predicate accepts, withRetry invokes the operation at most
\* max(1, maxAttempts) times, whatever maxAttempts is.
C30_Terminates ==
  AllRetryable => opCalls <= (IF maxAttempts > 1 THEN maxAttempts ELSE 1)

\* attempts whose operation() has not settled yet, and armed timers that
\* have not fired yet
InFlight ==
  opCalls - Len(thrown) - (IF settled.state = "resolved" THEN 1 ELSE 0)
TimersPending == Len(delays) - (opCalls - 1)

\* C32: while the promise is pending exactly one thing is outstanding,
\* either one attempt in flight or one armed timer; once it is settled
\* nothing is outstanding and no step follows: the settlement is not
\* changed, the operation is not invoked, the hook is not called and no
\* timer is armed. The promise is resolved by the step in which an attempt
\* succeeds and rejected by the step in which an attempt fails for good,
\* with that attempt's error.
C32_SettlesOnce ==
  /\ [] ( /\ InFlight \in {0, 1}
          /\ TimersPending \in {0, 1}
          /\ settled = Pending => InFlight + TimersPending = 1
          /\ settled # Pending => InFlight + TimersPending = 0
          /\ settled = Pending <=> rpc \in {"attempt", "waiting"}
          /\ settled.state = "rejected" =>
               settled.error = thrown[Len(thrown)] )
  /\ [][ /\ settled # Pending =>
              UNCHANGED <<settled, opCalls, hookCalls, delays, thrown>>
         /\ settled' # settled =>
              /\ InFlight = 1
              /\ InFlight' = 0
              /\ UNCHANGED <<opCalls, hookCalls, delays>> ]_vars

\* two attempts failed and were retried, the third succeeded: resolved,
\* nothing outstanding
C32_Witness ==
  /\ settled = Resolved
  /\ rpc = "resolved"
  /\ opCalls = 3
  /\ Len(thrown) = 2
  /\ Len(hookCalls) = 2
  /\ Len(delays) = 2

\* C31 (as stated): when the handling of a failed attempt is over and has
\* left no attempt in flight and no timer pending, the promise returned by
\* withRetry is settled, also when the predicate or the hook threw.
C31_StillSettles ==
  (InFlight = 0 /\ TimersPending <= 0) => settled # Pending

\* the outcomes the operation has had so far in this run
C39_Outcomes == IF rpc = "resolved" THEN Append(thrown, NoError) ELSE thrown

\* C39: whenever the promise-based withRetry is not waiting on a timer, the
\* loop-based withRetry of agent.js, given the same options and the same
\* operation outcomes, has made the same number of invocations, the same
\* hook calls and the same delays, and has settled in the same way (or is
\* likewise still pending)
C39_Equivalent ==
  rpc # "waiting" =>
    LET loop == withRetryLoop(C39_Outcomes, callSite.options)
    IN  /\ loop.opCalls = opCalls
        /\ loop.hookCalls = hookCalls
        /\ loop.delays = delays
        /\ loop.settled = settled

\* -------------------------------------------------- fetchWithRetry claims
\* the HTTP errors thrown for the statuses of S
HttpErrorsOf(S) == { HttpError(st) : st \in S }

\* the errors C17 names as retried: a message containing "timeout",
\* connection reset, DNS failure, connection refused, and the HTTP error of
\* every status >= 500
C17_Listed(e) ==
  \/ \E i \in 1..Len(e.message) : e.message[i] = "timeout"
  \/ e.code \in {"ECONNRESET", "ENOTFOUND", "ECONNREFUSED"}
  \/ e \in HttpErrorsOf({ st \in Statuses : st >= 500 })

\* C17 (as stated): a failed attempt k that is not the last allowed one is
\* retried, with the hook called and the backoff delay armed, if and only
\* if its error is one of the listed ones; the wrapper never resolves with
\* a response of status >= 500, and when the attempts are exhausted on such
\* a response it rejects with the HTTP error.
C17_FetchPredicate ==
  /\ response < 500
  /\ \A k \in 1..Len(thrown) :
       LET e == thrown[k]
       IN  /\ (C17_Listed(e) /\ k < maxAttempts) =>
                /\ Len(hookCalls) >= k
                /\ hookCalls[k] = <<e, k>>
                /\ delays[k] = calculateDelay(k, baseDelay, multiplier,
                                              maxDelay)
           /\ (C17_Listed(e) /\ k = maxAttempts) =>
                (rpc = "rejected" /\ settled = Rejected(e))
           /\ ~C17_Listed(e) =>
                (k = Len(thrown) /\ rpc = "rejected" /\ Len(hookCalls) = k - 1)

\* C18: the wrapper resolves exactly when a response with a status that is
\* not a server error arrives, with that response and at once; a 2xx or 4xx
\* status is never turned into an error; when such a response answers the
\* first attempt the operation ran once, with no hook call and no delay.
C18_FetchReturns ==
  /\ rpc = "resolved" <=> response # 0
  /\ response # 0 =>
       /\ response \in Statuses
       /\ Ok(response) \/ response < 500
       /\ settled = Resolved
       /\ opCalls = Len(thrown) + 1
       /\ Len(hookCalls) = Len(thrown)
       /\ thrown = <<>> => (opCalls = 1 /\ hookCalls = <<>> /\ delays = <<>>)
  /\ \A k \in 1..Len(thrown) :
       thrown[k] \notin HttpErrorsOf({ st \in Statuses : st < 500 })

\* a 404 answered the first attempt and was returned: one invocation, no
\* hook call, no delay, although more attempts were allowed
C18_Witness ==
  /\ response = 404
  /\ rpc = "resolved"
  /\ maxAttempts = MAX_ATTEMPTS
  /\ opCalls = 1
  /\ hookCalls = <<>>
  /\ delays = <<>>

\* C19: while an attempt is in flight only its own timeout timer can be
\* armed, and it is armed until it fires; no timeout timer is armed while
\* the wrapper waits for a retry or after it has settled; a timer that
\* fires aborts the attempt in flight it was armed for and nothing else;
\* an attempt fails with the timeout error exactly if it was aborted, the
\* timeout error differs from every network and HTTP error and is accepted
\* by the predicate, so it is retried while attempts are left; every new
\* attempt starts with a timer of its own armed and its controller not
\* aborted.
C19_FreshTimeout ==
  /\ [] ( /\ rpc = "attempt" =>
               /\ timers \subseteq {attempt}
               /\ attempt \in timers \/ attempt \in aborted
          /\ rpc # "attempt" => timers = {}
          /\ aborted \subseteq 1..attempt
          /\ TimeoutError \notin NetworkErrors \cup HttpErrorsOf(Statuses)
          /\ TimeoutError \in shouldRetry
          /\ \A k \in 1..Len(thrown) :
               /\ thrown[k] = TimeoutError <=> k \in aborted
               /\ (k \in aborted /\ k < maxAttempts) =>
                    hookCalls[k] = <<TimeoutError, k>> )
  /\ [][ aborted' # aborted =>
           /\ rpc = "attempt"
           /\ attempt \in timers
           /\ aborted' = aborted \cup {attempt} ]_vars
  /\ [][ attempt' # attempt =>
           /\ timers' = {attempt'}
           /\ attempt' \notin aborted' ]_vars

\* the first attempt timed out and was retried; the second is in flight
\* with its own timer armed and its controller not aborted
C19_Witness ==
  /\ rpc = "attempt"
  /\ attempt = 2
  /\ thrown = <<TimeoutError>>
  /\ hookCalls = << <<TimeoutError, 1>> >>
  /\ aborted = {1}
  /\ timers = {2}

\* ------------------------------------------------- openaiWithRetry claims
\* the errors C20 names as retried
C20_Listed(e) ==
  \/ e.status = 429
  \/ e.status >= 500
  \/ e.code \in {"ECONNRESET", "ENOTFOUND"}
  \/ \E i \in 1..Len(e.message) : e.message[i] = "timeout"

\* C20: a failed attempt k that is not the last allowed one is retried (the
\* hook is called for it and a delay armed) if and only if its error has
\* status 429, or status >= 500, or code ECONNRESET or ENOTFOUND, or a
\* message containing "timeout"; any other error ends the call at once, the
\* promise rejected with it, so that after a first such error (status 400,
\* 401, 404, ...) the operation was invoked exactly once.
C20_OpenaiPredicate ==
  \A k \in 1..Len(thrown) :
    LET e == thrown[k]
    IN  /\ (C20_Listed(e) /\ k < maxAttempts) =>
             /\ Len(hookCalls) >= k
             /\ Len(delays) >= k
             /\ hookCalls[k] = <<e, k>>
        /\ ~C20_Listed(e) =>
             /\ k = Len(thrown)
             /\ opCalls = k
             /\ Len(hookCalls) = k - 1
             /\ Len(delays) = k - 1
             /\ rpc = "rejected"
             /\ settled = Rejected(e)
        /\ (e.status \in {400, 401, 404} /\ k = 1) =>
             (opCalls = 1 /\ rpc = "rejected" /\ hookCalls = <<>>)

\* a rate-limit error was retried, then a 401 ended the call on the second
\* of three allowed attempts
C20_Witness ==
  /\ maxAttempts = 3
  /\ Len(thrown) = 2
  /\ thrown[1].status = 429
  /\ thrown[2].status = 401
  /\ hookCalls = << <<thrown[1], 1>> >>
  /\ opCalls = 2
  /\ rpc = "rejected"
  /\ settled = Rejected(thrown[2])

\* ------------------------------------------ wrappers' call-site claims
\* the predicate each wrapper installs
C37_OwnPredicate ==
  IF callSite.via = "openaiWithRetry"
    THEN { e \in OpenaiErrors : OpenaiShouldRetry(e) }
    ELSE { e \in FetchErrors : FetchShouldRetry(e) }

\* C37: a call through openaiWithRetry or fetchWithRetry runs with the call
\* site's maxAttempts, baseDelay, multiplier and maxDelay (the configured
\* defaults where the call site names none), so it makes at most that many
\* attempts and waits the delays that policy gives; the predicate is always
\* the wrapper's own, whatever the call site passed; and through
\* openaiWithRetry the hook is always the wrapper's own, so the call site's
\* onRetry is never the one invoked
C37_CallSitePolicy ==
  LET o == callSite.options
  IN  /\ callSite.via \in {"openaiWithRetry", "fetchWithRetry"}
      /\ maxAttempts = Destructure(o, "maxAttempts", MAX_ATTEMPTS)
      /\ maxAttempts \in {2, MAX_ATTEMPTS}
      /\ baseDelay = Destructure(o, "baseDelay", BASE_DELAY)
      /\ multiplier = Destructure(o, "multiplier", BACKOFF_MULTIPLIER)
      /\ maxDelay = Destructure(o, "maxDelay", MAX_DELAY)
      /\ opCalls <= maxAttempts
      /\ \A k \in 1..Len(delays) :
           delays[k] = calculateDelay(k,
                         Destructure(o, "baseDelay", BASE_DELAY),
                         Destructure(o, "multiplier", BACKOFF_MULTIPLIER),
                         Destructure(o, "maxDelay", MAX_DELAY))
      /\ shouldRetry = C37_OwnPredicate
      /\ \A k \in 1..Len(thrown) :
           (Len(delays) >= k) <=>
             (k < maxAttempts /\ thrown[k] \in C37_OwnPredicate)
      /\ callSite.via = "openaiWithRetry" => onRetry = "openai"

\* an image-analysis call site passed maxAttempts: 2, a predicate that
\* accepts nothing and a hook of its own to openaiWithRetry: the first
\* failure, a rate limit, was retried after the wrapper's hook ran, and the
\* second attempt was the last
C37_Witness ==
  /\ callSite.via = "openaiWithRetry"
  /\ "maxAttempts" \in DOMAIN callSite.options
  /\ callSite.options["maxAttempts"] = 2
  /\ "shouldRetry" \in DOMAIN callSite.options
  /\ callSite.options["shouldRetry"] = {}
  /\ "onRetry" \in DOMAIN callSite.options
  /\ callSite.options["onRetry"] = "caller"
  /\ "baseDelay" \in DOMAIN callSite.options
  /\ Len(thrown) = 2
  /\ thrown[1].status = 429
  /\ hookCalls = << <<thrown[1], 1>> >>
  /\ delays = <<500>>
  /\ onRetry = "openai"
  /\ opCalls = 2
  /\ rpc = "rejected"

\* ------------------------------------------------------ webresearch claims
\* the page fetches made so far, in order
IsPageEffect(e) == e.kind = "page"
PageEffects == SelectSeq(effects, IsPageEffect)

\* C22: a result-page fetch that fails (the fetch throws after its retries,
\* reading the body throws, or the status is not ok) does not end the tool
\* call: the loop goes on to the next result; exactly one entry per result
\* is recorded, in the order of the results, holding the snippet exactly
\* when that result's page fetch failed; every result's page is fetched;
\* and the summary call is made once, last, with one entry per result.
C22_PartialFailure ==
  /\ [] ( /\ Len(entries) <= Len(items)
          /\ Len(PageEffects) = Len(entries)
          /\ tpc = "pages" => Len(entries) = ti - 1
          /\ \A i \in 1..Len(entries) :
               /\ entries[i].id = items[i]
               /\ PageEffects[i].arg = items[i]
               /\ entries[i].content = "snippet"
                    <=> PageEffects[i].outcome # "ok"
               /\ entries[i].content = "page"
                    <=> PageEffects[i].outcome = "ok"
          /\ \A k \in 1..Len(effects) :
               effects[k].kind = "summary" =>
                 /\ k = Len(effects)
                 /\ effects[k].arg = Len(items)
                 /\ Len(entries) = Len(items)
          /\ (result # <<>> /\ PageEffects # <<>>) =>
               effects[Len(effects)].kind = "summary" )
  /\ [][ (tpc = "pages" /\ ti <= Len(items)) =>
           /\ tpc' = "pages"
           /\ result' = <<>>
           /\ ti' = ti + 1
           /\ Len(entries') = Len(entries) + 1 ]_vars

\* three results; the first page fetch threw, the second was read, the
\* third was not ok: three entries, the summary was made and returned
C22_Witness ==
  /\ tpc = "returned"
  /\ Len(items) = 3
  /\ Len(entries) = 3
  /\ Len(PageEffects) = 3
  /\ PageEffects[1].outcome = "throws"
  /\ PageEffects[2].outcome = "ok"
  /\ PageEffects[3].outcome = "notok"
  /\ entries[1].content = "snippet"
  /\ entries[2].content = "page"
  /\ entries[3].content = "snippet"
  /\ effects[Len(effects)] = Effect("summary", 3, "text")
  /\ result[1] = "Web Research Results for"

\* ------------------------------------------- image_search_analysis claims
\* the calls of a model (vision or summary) made so far
IsModelEffect(e) == e.kind \in {"vision", "summary"}
ModelEffects == SelectSeq(effects, IsModelEffect)
IsVisionEffect(e) == e.kind = "vision"
VisionEffects == SelectSeq(effects, IsVisionEffect)
NoImagesFound == result # <<>> /\ result[1] = "No images found for query"

C24_PerImageEntry ==
  /\ [] ( /\ Len(items) <= ImageLimit
          /\ Len(VisionEffects) <= ImageLimit
          /\ Len(VisionEffects) = Len(entries)
          /\ Len(entries) <= Len(items)
          /\ tpc = "analyze" => Len(entries) = ti - 1
          /\ \A i \in 1..Len(entries) :
               /\ entries[i].imageUrl = items[i]
               /\ entries[i].imageNumber = i
               /\ VisionEffects[i].arg = items[i]
               /\ entries[i].analysis = "Failed to analyze this image:"
                    <=> VisionEffects[i].outcome = "throws"
               /\ entries[i].analysis = "analysis"
                    <=> VisionEffects[i].outcome = "text"
          /\ \A k \in 1..Len(effects) :
               effects[k].kind = "summary" =>
                 /\ k = Len(effects)
                 /\ effects[k].arg = Len(items)
                 /\ Len(entries) = Len(items)
          /\ (result # <<>> /\ VisionEffects # <<>>) =>
               effects[Len(effects)].kind = "summary" )
  /\ [][ (tpc = "analyze" /\ ti <= Len(items)) =>
           /\ tpc' = "analyze"
           /\ result' = <<>>
           /\ ti' = ti + 1
           /\ Len(entries') = Len(entries) + 1 ]_vars

\* four elements matched the selectors, three were kept; the first analysis
\* failed, the second gave a text, the third failed: three entries, and the
\* combined summary was made and returned
C24_Witness ==
  /\ tpc = "returned"
  /\ Len(items) = ImageLimit
  /\ items[3] = [from |-> "selector", pos |-> 4]
  /\ Len(entries) = 3
  /\ VisionEffects[1].outcome = "throws"
  /\ VisionEffects[2].outcome = "text"
  /\ VisionEffects[3].outcome = "throws"
  /\ entries[1].analysis = "Failed to analyze this image:"
  /\ entries[2].analysis = "analysis"
  /\ entries[3].analysis = "Failed to analyze this image:"
  /\ effects[Len(effects)] = Effect("summary", 3, "text")
  /\ result[1] = "Image Search Analysis Results for"

\* ---------------------------------------------------- analyze_image claims
\* C25: for a web address the first external call of analyze_image is the
\* HEAD request; the vision model is called only as the second call, after
\* a HEAD response that was ok, and with that address; when the HEAD request
\* throws or its response is not ok the handler returns a string that
\* begins with 'Error' and the vision model is not called.
C25_HeadBeforeModel ==
  /\ [] ( IsUrl(input.path) =>
            /\ effects # <<>> => effects[1].kind = "head"
            /\ Len(effects) <= 2
            /\ \A k \in 1..Len(effects) :
                 effects[k].kind = "vision" =>
                   /\ k = 2
                   /\ effects[1] = Effect("head", input.path, "ok")
                   /\ effects[k].arg = input.path
            /\ (effects # <<>> /\ effects[1].outcome # "ok") =>
                 /\ Len(effects) = 1
                 /\ tpc = "returned"
                 /\ result[1] \in {"Error: Failed to access image URL",
                                   "Error: Image URL returned status"}
            /\ tpc = "vision" =>
                 effects = <<Effect("head", input.path, "ok")>> )
  /\ [][ (IsUrl(input.path) /\ effects = <<>> /\ effects' # <<>>) =>
           effects'[1].kind = "head" ]_vars

\* an https address: the HEAD request was ok, then the model was asked and
\* its text returned
C25_Witness ==
  /\ input.path.scheme = "https://"
  /\ tpc = "returned"
  /\ effects = <<Effect("head", input.path, "ok"),
                 Effect("vision", input.path, "text")>>
  /\ result = <<"Image Analysis:", "analysis">>

\* ------------------------------------------------------ run_command claims
\* what execAsync settled with in this call
Settled == effects[1].outcome
\* the timeout's SIGTERM ended the command
KilledByTimeout(r) == r.error /\ r.signal = "SIGTERM" /\ r.killed

\* C26: every execution is reported as exactly one of three outcomes, by
\* what execAsync settled with. Resolved: stdout alone, or stderr and stdout
\* behind their prefixes when stderr is not empty. Ended by the timeout's
\* SIGTERM: 'Command timed out after <ms>', and only then. Any other
\* rejection: 'Command failed with exit code <code>' with stdout and
\* stderr. `exit 1` gives 'Command failed with exit code 1' with an empty
\* stdout.
C26_OneOutcome ==
  tpc = "returned" =>
    /\ Len(effects) = 1
    /\ ~Settled.error =>
         /\ Settled.stderr = "" => result = <<Settled.stdout>>
         /\ Settled.stderr # "" =>
              result = <<"STDERR:", Settled.stderr,
                         "STDOUT:", Settled.stdout>>
    /\ KilledByTimeout(Settled) <=> result[1] = "Command timed out after"
    /\ KilledByTimeout(Settled) =>
         /\ result[2] = COMMAND_EXECUTION
         /\ result[4] = input.command
    /\ (Settled.error /\ ~KilledByTimeout(Settled))
         <=> result[1] = "Command failed with exit code"
    /\ (Settled.error /\ ~KilledByTimeout(Settled)) =>
         /\ Len(result) = 8
         /\ result[2] = Coalesce(Settled.code, "unknown")
         /\ result[4] = Coalesce(Settled.stdout, "")
         /\ result[6] = Coalesce(Settled.stderr, "")
    /\ input.command = "exit 1" =>
         /\ result[1] = "Command failed with exit code"
         /\ result[2] = "1"
         /\ result[4] = ""

\* a command that exec's timeout ended after it had printed something
C26_Witness ==
  /\ tpc = "returned"
  /\ input.command = "sleep 999"
  /\ Settled = [error |-> TRUE, code |-> "null", signal |-> "SIGTERM",
                killed |-> TRUE, stdout |-> "out", stderr |-> ""]
  /\ result[1] = "Command timed out after"

\* ------------------------------------------------------- write_file claims
\* the failure kinds the handler tells apart, and the success
WriteKind(outcome) ==
  IF outcome \in {"ok", "ENOENT", "EACCES", "ENOSPC", "EISDIR", "EROFS"}
    THEN outcome ELSE "other"
WriteKinds == {WriteKind(o) : o \in WriteOutcomes}
\* the fixed text a result string begins with, up to the quoted path
Beginning(words) == words[1]

\* C27: the result strings of two calls whose writes settled in different
\* kinds (success, ENOENT, EACCES, ENOSPC, EISDIR, EROFS, other) differ
\* already in the fixed text they begin with, whatever the paths and the
\* contents; a call returns the string of the kind its write settled in,
\* and for EACCES it begins with 'Error: Permission denied'.
C27_DistinctStrings ==
  /\ \A p1 \in Paths \ {"undefined"}, p2 \in Paths \ {"undefined"} :
       \A c1 \in Contents, c2 \in Contents :
         \A o1 \in WriteOutcomes, o2 \in WriteOutcomes :
           WriteKind(o1) # WriteKind(o2) =>
             Beginning(WriteFileResult(p1, c1, o1))
               # Beginning(WriteFileResult(p2, c2, o2))
  /\ tpc = "returned" =>
       /\ Len(effects) = 1
       /\ Beginning(result)
            = Beginning(WriteFileResult(input.path, input.content,
                                        effects[1].outcome))
       /\ effects[1].outcome = "EACCES"
            <=> Beginning(result) = "Error: Permission denied writing to"
       /\ effects[1].outcome = "ok" <=> Beginning(result) = "Wrote"

\* the write was refused for lack of permission
C27_Witness ==
  /\ tpc = "returned"
  /\ effects = <<Effect("writeFile", "dir/b.txt", "EACCES")>>
  /\ Beginning(result) = "Error: Permission denied writing to"
  /\ result[2] = "dir/b.txt"

\* C38 (as stated): after a successful write the number in the confirmation
\* string is the number of bytes written to the file.
C38_ByteCount ==
  (tpc = "returned" /\ effects[1].outcome = "ok") =>
    result[2] = BytesWritten(input.content)

====
